---------------------------- MODULE Spec2Model ----------------------------
(***************************************************************************)
(* A model of the tracing-utils workspace.                                 *)
(*                                                                         *)
(*   tracing-memory : the archive (EVENT_QUEUE, EVENT_LOG, with_events),   *)
(*                    the capture layer (new_span, on_record, on_event)    *)
(*                    and the Field value domain (record_field,            *)
(*                    with_debug).                                         *)
(*                                                                         *)
(* Specifications:                                                         *)
(*   SpecFields  : Span::record_field and Event::record_field driven by    *)
(*                 the Visitor with the same sequence of recordings.       *)
(*   SpecDebug   : the WithDebug iterator of Field::with_debug.            *)
(*   Spec        : producers publishing through on_event and consumers     *)
(*                 running with_events, one atomic memory step per action. *)
(*   SpecCapture : the capture layer over a host registry of spans.        *)
(***************************************************************************)
EXTENDS Naturals, Sequences, FiniteSets, TLC

VARIABLES
    \* ---- tracing-memory/src/lib.rs ----
    queue,      \* EVENT_QUEUE: FIFO of Arc<Event> (indices into events)
    log,        \* EVENT_LOG: the Vec<Arc<Event>> behind the mutex
    mutex,      \* EVENT_LOG's lock: "free" or the thread holding the guard
    \* ---- threads ----
    frames,     \* per thread, its call stack inside this crate (innermost last)
    \* ---- heap ----
    events,     \* Arc<Event> allocations, in allocation (= push) order
    recs,       \* Arc<Span> allocations, in allocation order
    host,       \* the host registry: per span id, parent, extension slot, open
    \* ---- history (not program state) ----
    origin,     \* per event, <<thread, n>>: the n-th on_event of that thread
    calls,      \* per with_events call: what it saw and how it ended
    \* ---- SpecFields ----
    sfields,    \* Span.fields
    efields,    \* Event.fields
    recorded,   \* history: the recordings applied so far
    \* ---- SpecDebug ----
    dbgFrom,    \* history: the host values dbgField was recorded from, if any
    dbgField,   \* the Field with_debug was called on
    dbgCur,     \* WithDebug.0: the current slice
    dbgStack,   \* WithDebug.1: the pending slices
    dbgOut,     \* history: what the record_debug closure was handed, in order
    dbgDepth,   \* depth of the self.next() recursion inside the current pull
    dbgState,   \* "ready" | "done" (a pull returned None) | "overflow"
    \* ---- SpecParse: parse-env-filter ----
    text,       \* the directive string handed to filters(), as bytes
    written,    \* history: the directives text was written from, if any
    filtersDirectives, \* Filters.directives, a slice of text
    spanDirectives,    \* SpanFilters.directives of the Filter last yielded
    fieldDirectives,   \* FieldFilters.directives of the SpanFilter last yielded
    tree,       \* history: the items yielded so far, materialized
    last,       \* history: per iterator, the kind of item it yielded last
    firstErr,   \* history: the first Err met while draining in eager order
    inOrder,    \* history: nested iterators were drained before moving on
    eager,      \* what eager::filters(text) returned (None: not called)
    \* ---- SpecFilter: tracing-egui EventFilter ----
    filterText, \* the text the filter was parsed from (<< >>: built directly)
    directives, \* EventFilter.directives
    event,      \* the archived event includes() is asked about
    cursor,     \* includes(): position of the for loop
    included,   \* includes(): the local `included`
    result      \* includes(): the value returned (None: still running)

vars == <<queue, log, mutex, frames, events, recs, host, origin, calls,
          sfields, efields, recorded,
          dbgFrom, dbgField, dbgCur, dbgStack, dbgOut, dbgDepth, dbgState,
          text, written, filtersDirectives, spanDirectives, fieldDirectives,
          tree, last, firstErr, inOrder, eager,
          filterText, directives, event, cursor, included, result>>

archiveVars == <<queue, log, mutex, frames, events, recs, host, origin, calls>>
fieldVars   == <<sfields, efields, recorded>>
debugVars   == <<dbgFrom, dbgField, dbgCur, dbgStack, dbgOut, dbgDepth, dbgState>>
parseVars   == <<text, written, filtersDirectives, spanDirectives, fieldDirectives,
                 tree, last, firstErr, inOrder, eager>>
filterVars  == <<filterText, directives, event, cursor, included, result>>

---------------------------------------------------------------------------
(* Bounds of the model.                                                    *)

MaxPub        == 2      \* events the first producer publishes
MaxCalls      == 2      \* with_events calls made in all
MaxSpans      == 2      \* host spans created in SpecCapture
MaxRecs       == 3      \* Arc<Span> allocations in SpecCapture
MaxSpanValues == 2      \* values recorded on one span record
MaxRecordings == 4      \* recordings applied in SpecFields
MaxValues     == 3      \* most values recorded under one name for with_debug
MaxMultiple   == 2      \* longest Multiple built by hand as a with_debug input
MaxRecursion  == 3      \* self.next() nesting explored before "overflow"
MaxText       == 3      \* longest directive string over the whole alphabet
MaxWord       == 1      \* longest target, name, value or level of a composed directive
MaxDirectives == 2      \* most directives in a composed comma-separated list
MaxRest       == 2      \* longest free tail after the head of a bracket section
MaxFilterDirectives == 2 \* most directives in a filter text written as a list

---------------------------------------------------------------------------
(* Threads: producers only publish; a consumer calls with_events and may    *)
(* publish from inside its callback.                                       *)

Producers == {"p1", "p2"}
Consumers == {"c1", "c2"}
Threads   == Producers \cup Consumers

---------------------------------------------------------------------------
(* Sequences helpers.                                                      *)

Range(s) == {s[i] : i \in DOMAIN s}

SeqsUpTo(S, n) == UNION {[1..k -> S] : k \in 0..n}

IsPrefix(s, t) == Len(s) <= Len(t) /\ \A i \in DOMAIN s : s[i] = t[i]

---------------------------------------------------------------------------
(* archive.rs: the Field value domain.                                     *)
(* A Field is a record tagged by its variant; every variant keeps its      *)
(* payload under its own name.                                             *)

I64(v)       == [tag |-> "I64", i |-> v]
U64(v)       == [tag |-> "U64", u |-> v]
Bool(v)      == [tag |-> "Bool", b |-> v]
Str(v)       == [tag |-> "Str", s |-> v]
Error(v)     == [tag |-> "Error", e |-> v]
Debug(v)     == [tag |-> "Debug", d |-> v]
Multiple(xs) == [tag |-> "Multiple", xs |-> xs]

IsMultiple(f) == f.tag = "Multiple"

(* The values the host hands to tracing::field::Visit: a typed primitive,  *)
(* an error (with its Display text) or any Debug value (with its {:?}      *)
(* text).  A host string "x" seen through record_debug renders quoted.     *)
Quote(s) == "\"" \o s \o "\""

HostValues ==
    { [ty |-> "i64", i |-> 1], [ty |-> "i64", i |-> 2],
      [ty |-> "u64", u |-> 1],
      [ty |-> "bool", b |-> TRUE],
      [ty |-> "str", s |-> "x"],
      [ty |-> "error", display |-> "x"],
      [ty |-> "debug", str |-> "x"] }

FieldNames == {"a", "b"}

(* layer.rs: impl Visit for Visitor<'_, Span> and for Visitor<'_, Event>:  *)
(* the closure each record_* method hands to record_field.                 *)
VisitValue(hv) ==
    CASE hv.ty = "i64"   -> I64(hv.i)
      [] hv.ty = "u64"   -> U64(hv.u)
      [] hv.ty = "bool"  -> Bool(hv.b)
      [] hv.ty = "str"   -> Str(hv.s)
      [] hv.ty = "error" -> Error(hv.display)
      [] hv.ty = "debug" -> Debug(Quote(hv.str))

(* FieldMap = IndexMap<&'static str, Field>: a sequence of entries in      *)
(* insertion order, at most one per name.                                  *)
Entry(n, f) == [name |-> n, field |-> f]

HasEntry(fm, n) == \E i \in DOMAIN fm : fm[i].name = n

IndexOf(fm, n) == CHOOSE i \in DOMAIN fm : fm[i].name = n

Get(fm, n) == fm[IndexOf(fm, n)].field

(* Mutant of Merge: the Multiple arm is missing, so an entry that already  *)
(* is a Multiple is wrapped again.                                         *)
MergeNesting(field, v) == Multiple(<<field, v>>)

(* The closure given to replace_with_or_abort in record_field.             *)
Merge(field, v) ==
    IF IsMultiple(field)
    THEN Multiple(Append(field.xs, v))
    ELSE Multiple(<<field, v>>)

(* Event::record_field: entry(name).and_modify(..).or_insert_with(value).  *)
EventRecordField(fm, n, v) ==
    IF HasEntry(fm, n)
    THEN [fm EXCEPT ![IndexOf(fm, n)].field = Merge(@, v)]
    ELSE Append(fm, Entry(n, v))

(* Mutant of SpanRecordField: a plain insert, the later value replacing    *)
(* the earlier one.                                                        *)
SpanRecordFieldOverwrite(fm, n, v) ==
    IF HasEntry(fm, n)
    THEN [fm EXCEPT ![IndexOf(fm, n)].field = v]
    ELSE Append(fm, Entry(n, v))

(* Span::record_field: the same code, written a second time.               *)
SpanRecordField(fm, n, v) ==
    IF HasEntry(fm, n)
    THEN [fm EXCEPT ![IndexOf(fm, n)].field =
              IF IsMultiple(@) THEN Multiple(Append(@.xs, v))
                               ELSE Multiple(<<@, v>>)]
    ELSE Append(fm, Entry(n, v))

(* fields.record(&mut Visitor(..)): the host visits its (name, value)      *)
(* pairs in order.                                                         *)
RECURSIVE RecordSpan(_, _)
RecordSpan(fm, nvs) ==
    IF nvs = << >> THEN fm
    ELSE RecordSpan(SpanRecordField(fm, Head(nvs).name, VisitValue(Head(nvs).value)),
                    Tail(nvs))

RECURSIVE RecordEvent(_, _)
RecordEvent(fm, nvs) ==
    IF nvs = << >> THEN fm
    ELSE RecordEvent(EventRecordField(fm, Head(nvs).name, VisitValue(Head(nvs).value)),
                     Tail(nvs))

NameValue(n, hv) == [name |-> n, value |-> hv]

---------------------------------------------------------------------------
(* SpecFields: one span record and one event record receive the same       *)
(* recordings.                                                             *)

IdleArchive ==
    /\ queue = << >> /\ log = << >> /\ mutex = "free"
    /\ frames = [t \in Threads |-> << >>] /\ events = << >> /\ recs = << >> /\ host = << >>
    /\ origin = << >> /\ calls = << >>

IdleFields == sfields = << >> /\ efields = << >> /\ recorded = << >>

IdleDebug ==
    /\ dbgFrom = << >> /\ dbgField = I64(0) /\ dbgCur = << >> /\ dbgStack = << >>
    /\ dbgOut = << >> /\ dbgDepth = 0 /\ dbgState = "done"

(* The parser and the filter before anything is handed to them.           *)
Slice(lo, hi) == [lo |-> lo, hi |-> hi]

None == [some |-> FALSE]

Some(v) == [some |-> TRUE, val |-> v]

IdleParse ==
    /\ text = << >> /\ written = None /\ filtersDirectives = Slice(0, 0)
    /\ spanDirectives = None /\ fieldDirectives = None
    /\ tree = << >> /\ last = [f |-> "None", s |-> "absent", d |-> "absent"]
    /\ firstErr = "none" /\ inOrder = TRUE /\ eager = None

IdleFilter ==
    /\ filterText = << >> /\ directives = << >> /\ event = None
    /\ cursor = 0 /\ included = FALSE /\ result = None

InitFields == IdleArchive /\ IdleFields /\ IdleDebug /\ IdleParse /\ IdleFilter

RecordField(n, hv) ==
    /\ Len(recorded) < MaxRecordings
    /\ sfields' = RecordSpan(sfields, <<NameValue(n, hv)>>)
    /\ efields' = RecordEvent(efields, <<NameValue(n, hv)>>)
    /\ recorded' = Append(recorded, NameValue(n, hv))
    /\ UNCHANGED <<archiveVars, debugVars, parseVars, filterVars>>

NextFields == \E n \in FieldNames, hv \in HostValues : RecordField(n, hv)

SpecFields == InitFields /\ [][NextFields]_vars

---------------------------------------------------------------------------
(* The recordings of `recorded` made under name n, as Fields, in order.    *)

RECURSIVE ValuesUnder(_, _)
ValuesUnder(rs, n) ==
    IF rs = << >> THEN << >>
    ELSE IF Head(rs).name = n
         THEN <<VisitValue(Head(rs).value)>> \o ValuesUnder(Tail(rs), n)
         ELSE ValuesUnder(Tail(rs), n)

(* One step of the recording rule, as the documentation states it.         *)
FollowsRule(fm, fm2, n, v) ==
    /\ ~HasEntry(fm, n) => fm2 = Append(fm, Entry(n, v))
    /\ HasEntry(fm, n) =>
          /\ Len(fm2) = Len(fm)
          /\ HasEntry(fm2, n)
          /\ IF Get(fm, n).tag = "Multiple"
             THEN Get(fm2, n) = Multiple(Get(fm, n).xs \o <<v>>)
             ELSE Get(fm2, n) = Multiple(<<Get(fm, n), v>>)
    /\ \A m \in FieldNames \ {n} :
          /\ HasEntry(fm, m) <=> HasEntry(fm2, m)
          /\ HasEntry(fm, m) => /\ Get(fm2, m) = Get(fm, m)
                                /\ IndexOf(fm2, m) = IndexOf(fm, m)

\* C6: every recording of value v under name n changes the span field map and
\* the event field map by the same rule (insert v when n is new, append to an
\* existing Multiple, otherwise pair the old entry with v in a new Multiple),
\* leaves the entries of other names alone, and keeps the two maps equal.
C6_RecordingRule ==
    [][\A n \in FieldNames, hv \in HostValues :
          recorded' = Append(recorded, NameValue(n, hv)) =>
              /\ FollowsRule(sfields, sfields', n, VisitValue(hv))
              /\ FollowsRule(efields, efields', n, VisitValue(hv))
              /\ sfields' = efields']_vars

\* C6 witness: all three cases of the rule have happened (a was inserted, paired
\* and appended to; b was inserted after it) and the two maps agree.
C6_Witness ==
    /\ Len(recorded) = 4
    /\ HasEntry(sfields, "a") /\ HasEntry(sfields, "b")
    /\ IsMultiple(Get(sfields, "a")) /\ Len(Get(sfields, "a").xs) = 3
    /\ IndexOf(sfields, "a") = 1 /\ IndexOf(sfields, "b") = 2
    /\ efields = sfields

(* Shape of a field map entry: a Multiple is never empty and holds no      *)
(* Multiple.                                                               *)
WellShaped(f) ==
    IsMultiple(f) => /\ f.xs # << >>
                     /\ \A i \in DOMAIN f.xs : ~IsMultiple(f.xs[i])

UniqueNames(fm) == \A i, j \in DOMAIN fm : fm[i].name = fm[j].name => i = j

\* C7 as stated: every entry is well shaped, and recording name n with values
\* v1..vk (any k >= 1) leaves a single entry for n equal to Multiple([v1..vk]).
C7_AsStated ==
    \A fm \in {sfields, efields} :
        /\ UniqueNames(fm)
        /\ \A i \in DOMAIN fm : WellShaped(fm[i].field)
        /\ \A n \in FieldNames :
              LET vs == ValuesUnder(recorded, n)
              IN  Len(vs) >= 1 => HasEntry(fm, n) /\ Get(fm, n) = Multiple(vs)

\* C7 amended: every entry is well shaped (a Multiple is never empty and never
\* directly contains a Multiple); recording name n with values v1..vk leaves a
\* single entry for n, equal to Multiple([v1..vk]) in recording order when
\* k >= 2 and to v1 itself when k = 1; a name never recorded has no entry.
C7_FlatMultiple ==
    \A fm \in {sfields, efields} :
        /\ UniqueNames(fm)
        /\ \A i \in DOMAIN fm : WellShaped(fm[i].field)
        /\ \A n \in FieldNames :
              LET vs == ValuesUnder(recorded, n)
              IN  /\ Len(vs) = 0 => ~HasEntry(fm, n)
                  /\ Len(vs) = 1 => HasEntry(fm, n) /\ Get(fm, n) = vs[1]
                  /\ Len(vs) >= 2 => HasEntry(fm, n) /\ Get(fm, n) = Multiple(vs)

\* C7 witness: name a was recorded three times with different values, b once.
C7_Witness ==
    /\ Len(ValuesUnder(recorded, "a")) = 3
    /\ Len(ValuesUnder(recorded, "b")) = 1
    /\ ValuesUnder(recorded, "a")[1] # ValuesUnder(recorded, "a")[2]
    /\ Get(efields, "a") = Multiple(ValuesUnder(recorded, "a"))
    /\ Get(sfields, "b") = ValuesUnder(recorded, "b")[1]

---------------------------------------------------------------------------
(* archive.rs: Field::with_debug and its WithDebug iterator.               *)

(* What the record_debug closure is handed, by how {:?} prints it: an      *)
(* integer or a bool as itself, a Str as a &&str (quoted), an Error or a   *)
(* Debug through format_args!("{}", ..) (the text as it is).               *)
Rendered(head) ==
    CASE head.tag = "I64"   -> [int |-> head.i]
      [] head.tag = "U64"   -> [int |-> head.u]
      [] head.tag = "Bool"  -> [bool |-> head.b]
      [] head.tag = "Str"   -> [text |-> Quote(head.s)]
      [] head.tag = "Error" -> [text |-> head.e]
      [] head.tag = "Debug" -> [text |-> head.d]

(* The Fields the capture layer can build under one name: the entry left   *)
(* by recording the host values hvs in order.                              *)
RecordedField(hvs) ==
    Get(RecordEvent(<< >>, [i \in DOMAIN hvs |-> NameValue("a", hvs[i])]), "a")

(* Fields only the public enum can build: a Multiple of leaves and of      *)
(* Multiples, possibly empty.                                              *)
HandLeaves == {I64(1), Str("x")}

HandBuiltFields ==
    LET flat == {Multiple(xs) : xs \in SeqsUpTo(HandLeaves, MaxMultiple)}
    IN  {Multiple(xs) : xs \in SeqsUpTo(HandLeaves \cup flat, MaxMultiple)}

(* WithDebug(std::slice::from_ref(self), vec![], record_debug)             *)
InitDebug ==
    /\ IdleArchive /\ IdleFields /\ IdleParse /\ IdleFilter
    /\ \/ /\ dbgFrom \in SeqsUpTo(HostValues, MaxValues) \ {<< >>}
          /\ dbgField = RecordedField(dbgFrom)
       \/ /\ dbgFrom = << >>
          /\ dbgField \in HandBuiltFields
    /\ dbgCur = <<dbgField>>
    /\ dbgStack = << >>
    /\ dbgOut = << >>
    /\ dbgDepth = 0
    /\ dbgState = "ready"

(* next(), first statement: an empty slice is replaced by the popped one.  *)
Refilled ==
    IF dbgCur # << >> THEN [cur |-> dbgCur, stack |-> dbgStack]
    ELSE IF dbgStack = << >> THEN [cur |-> << >>, stack |-> << >>]
    ELSE [cur |-> dbgStack[Len(dbgStack)],
          stack |-> SubSeq(dbgStack, 1, Len(dbgStack) - 1)]

(* next(): [] => None.                                                     *)
WithDebugNone ==
    /\ dbgState = "ready"
    /\ Refilled.cur = << >>
    /\ dbgCur' = << >>
    /\ dbgStack' = Refilled.stack
    /\ dbgState' = "done"
    /\ dbgDepth' = 0
    /\ UNCHANGED <<dbgFrom, dbgField, dbgOut, archiveVars, fieldVars, parseVars, filterVars>>

(* Mutant of WithDebugLeaf: self.0 is emptied instead of set to tail.      *)
WithDebugLeafDropsTail ==
    /\ dbgState = "ready"
    /\ Refilled.cur # << >>
    /\ ~IsMultiple(Head(Refilled.cur))
    /\ dbgOut' = Append(dbgOut, Rendered(Head(Refilled.cur)))
    /\ dbgCur' = << >>
    /\ dbgStack' = Refilled.stack
    /\ dbgDepth' = 0
    /\ UNCHANGED <<dbgFrom, dbgField, dbgState, archiveVars, fieldVars, parseVars, filterVars>>

(* next(): [head, tail @ ..] with head a leaf: the closure is called,      *)
(* self.0 = tail, Some(res).                                               *)
WithDebugLeaf ==
    /\ dbgState = "ready"
    /\ Refilled.cur # << >>
    /\ ~IsMultiple(Head(Refilled.cur))
    /\ dbgOut' = Append(dbgOut, Rendered(Head(Refilled.cur)))
    /\ dbgCur' = Tail(Refilled.cur)
    /\ dbgStack' = Refilled.stack
    /\ dbgDepth' = 0
    /\ UNCHANGED <<dbgFrom, dbgField, dbgState, archiveVars, fieldVars, parseVars, filterVars>>

(* next(): [head, tail @ ..] with head = Multiple(values): the slice or    *)
(* the stack is updated and next() calls itself.  The nested call is the   *)
(* next step; a pull nested deeper than MaxRecursion is cut as "overflow". *)
WithDebugMultiple ==
    /\ dbgState = "ready"
    /\ Refilled.cur # << >>
    /\ IsMultiple(Head(Refilled.cur))
    /\ LET values == Head(Refilled.cur).xs
           tail   == Tail(Refilled.cur)
       IN  /\ dbgCur' = IF tail = << >> THEN values ELSE Refilled.cur
           /\ dbgStack' = IF tail # << >> /\ values # << >>
                          THEN Append(Refilled.stack, values)
                          ELSE Refilled.stack
    /\ IF dbgDepth < MaxRecursion
       THEN dbgDepth' = dbgDepth + 1 /\ dbgState' = dbgState
       ELSE dbgDepth' = dbgDepth /\ dbgState' = "overflow"
    /\ UNCHANGED <<dbgFrom, dbgField, dbgOut, archiveVars, fieldVars, parseVars, filterVars>>

NextDebug == WithDebugNone \/ WithDebugLeaf \/ WithDebugMultiple

SpecDebug == InitDebug /\ [][NextDebug]_vars

(* The leaves recorded by hvs, as the closure should be handed them.       *)
Visits(hvs) == [i \in DOMAIN hvs |-> Rendered(VisitValue(hvs[i]))]

\* C8: for a field produced by recording k >= 1 values under one name, the
\* with_debug iterator hands the closure exactly those k values, one call per
\* value, in recording order, and then returns None (it never recurses without
\* end and never makes a k+1-th call).
C8_WithDebugVisitsRecorded ==
    Len(dbgFrom) >= 1 =>
        /\ dbgField = RecordedField(dbgFrom)
        /\ IsPrefix(dbgOut, Visits(dbgFrom))
        /\ dbgState # "overflow"
        /\ dbgState = "done" => dbgOut = Visits(dbgFrom)
        /\ dbgState = "ready" /\ dbgOut = Visits(dbgFrom) =>
               dbgCur = << >> /\ dbgStack = << >>

\* C8 witness: a field recorded three times, with three different leaves, has
\* been iterated to its end.
C8_Witness ==
    /\ dbgState = "done"
    /\ IsMultiple(dbgField) /\ Len(dbgField.xs) = 3
    /\ dbgField.xs[1] # dbgField.xs[2] /\ dbgField.xs[2] # dbgField.xs[3]
    /\ Len(dbgFrom) = 3
    /\ Len(dbgOut) = 3

---------------------------------------------------------------------------
(* lib.rs and layer.rs: the archive.                                       *)
(*                                                                         *)
(* A thread's frame is where it stands inside this crate:                  *)
(*   [pc |-> "push", archived]  on_event built its record, push is next    *)
(*   [pc |-> "lock", call]      with_events entered, EVENT_LOG.lock() next *)
(*   [pc |-> "drain", call]     guard held, inside events.extend(..)       *)
(*   [pc |-> "cb", call]        guard held, inside cb(&mut events)         *)

Top(t) == frames[t][Len(frames[t])]

At(t, pc) == frames[t] # << >> /\ Top(t).pc = pc

Push_(t, f) == [frames EXCEPT ![t] = Append(@, f)]

Pop_(t) == [frames EXCEPT ![t] = SubSeq(@, 1, Len(@) - 1)]

Goto(t, pc) == [frames EXCEPT ![t][Len(frames[t])].pc = pc]

(* Events thread t has built so far (published or about to be).            *)
Emitted(t) ==
    Cardinality({i \in DOMAIN origin : origin[i][1] = t})
        + (IF At(t, "push") THEN 1 ELSE 0)

(* How many events a thread emits: the first producer MaxPub, the second   *)
(* one, the first consumer one (from inside a callback it runs).           *)
Budget(t) == IF t = "p1" THEN MaxPub ELSE IF t \in {"p2", "c1"} THEN 1 ELSE 0

(* How many with_events calls a thread makes: the second consumer one.     *)
CallBudget(t) == IF t = "c2" THEN 1 ELSE MaxCalls

(* &'static Metadata of the callsites.                                     *)
EventMeta == [target |-> "app", name |-> "event", level |-> "INFO"]

(* Mutant of SpanRecordOf: the event takes the record built at span        *)
(* creation instead of the one in the extension slot.                      *)
SpanRecordOfCreation(h) == IF h = 0 THEN 0 ELSE host[h].first

(* The host span an event or a child span is created in: 0 for none.       *)
SpanRecordOf(h) == IF h = 0 THEN 0 ELSE host[h].ext

(* layer.rs on_event, up to the push: the record is built from the event's *)
(* metadata, the wall clock, the enclosing span's record (an Arc::clone)   *)
(* and the visited fields.  A thread emits from its own code or, a         *)
(* consumer, from inside the callback it is running.                       *)
OnEventBuild(t, meta, now, nvs, h) ==
    /\ IF t \in Consumers THEN At(t, "cb") ELSE frames[t] = << >>
    /\ Emitted(t) < Budget(t)
    /\ frames' = Push_(t, [pc |-> "push",
                           archived |-> [meta      |-> meta,
                                         timestamp |-> now,
                                         fields    |-> RecordEvent(<< >>, nvs),
                                         span      |-> SpanRecordOf(h)]])
    /\ UNCHANGED <<queue, log, mutex, events, recs, host, origin, calls, fieldVars, debugVars, parseVars, filterVars>>

(* Mutant of Push: the event is put at the head of the queue.              *)
PushFront(t) ==
    /\ At(t, "push")
    /\ events' = Append(events, Top(t).archived)
    /\ queue' = <<Len(events) + 1>> \o queue
    /\ origin' = Append(origin, <<t, Emitted(t)>>)
    /\ frames' = Pop_(t)
    /\ UNCHANGED <<log, mutex, recs, host, calls, fieldVars, debugVars, parseVars, filterVars>>

(* Mutant of Push: the producer pushes under the archive mutex.            *)
PushUnderLock(t) ==
    /\ At(t, "push")
    /\ mutex = "free"
    /\ events' = Append(events, Top(t).archived)
    /\ queue' = Append(queue, Len(events) + 1)
    /\ origin' = Append(origin, <<t, Emitted(t)>>)
    /\ frames' = Pop_(t)
    /\ UNCHANGED <<log, mutex, recs, host, calls, fieldVars, debugVars, parseVars, filterVars>>

(* Mutant of Push: a thread that holds the archive mutex puts the event    *)
(* straight on the vector.                                                 *)
PushIntoVector(t) ==
    /\ At(t, "push")
    /\ events' = Append(events, Top(t).archived)
    /\ IF mutex = t
       THEN log' = Append(log, Len(events) + 1) /\ queue' = queue
       ELSE queue' = Append(queue, Len(events) + 1) /\ log' = log
    /\ origin' = Append(origin, <<t, Emitted(t)>>)
    /\ frames' = Pop_(t)
    /\ UNCHANGED <<mutex, recs, host, calls, fieldVars, debugVars, parseVars, filterVars>>

(* layer.rs on_event: EVENT_QUEUE.push(Arc::new(archived)).                *)
Push(t) ==
    /\ At(t, "push")
    /\ events' = Append(events, Top(t).archived)
    /\ queue' = Append(queue, Len(events) + 1)
    /\ origin' = Append(origin, <<t, Emitted(t)>>)
    /\ frames' = Pop_(t)
    /\ UNCHANGED <<log, mutex, recs, host, calls, fieldVars, debugVars, parseVars, filterVars>>

(* A call of with_events begins: nothing is touched yet.  The history      *)
(* keeps how many publishes had returned by then.                          *)
Enter(t) ==
    /\ Len(calls) < MaxCalls
    /\ Cardinality({k \in DOMAIN calls : calls[k].thread = t}) < CallBudget(t)
    /\ calls' = Append(calls, [thread    |-> t,
                               published |-> Len(events),
                               state     |-> "lock",
                               handed    |-> << >>])
    /\ frames' = Push_(t, [pc |-> "lock", call |-> Len(calls) + 1])
    /\ UNCHANGED <<queue, log, mutex, events, recs, host, origin, fieldVars, debugVars, parseVars, filterVars>>

(* with_events called from the consumer's own code.                        *)
CallWithEvents(t) ==
    /\ frames[t] = << >>
    /\ Enter(t)

(* with_events called from inside a with_events callback.                  *)
CbReenter(t) ==
    /\ At(t, "cb")
    /\ Enter(t)

(* Mutant of Lock: a reentrant mutex, which its holder may lock again.     *)
LockReentrant(t) ==
    /\ At(t, "lock")
    /\ mutex \in {"free", t}
    /\ mutex' = t
    /\ frames' = Goto(t, "drain")
    /\ calls' = [calls EXCEPT ![Top(t).call].state = "drain"]
    /\ UNCHANGED <<queue, log, events, recs, host, origin, fieldVars, debugVars, parseVars, filterVars>>

(* let mut events = EVENT_LOG.lock(); events.reserve(EVENT_QUEUE.len());   *)
(* parking_lot's Mutex is not reentrant: lock() waits while it is held,    *)
(* whoever holds it.  reserve changes the capacity only.                   *)
Lock(t) ==
    /\ At(t, "lock")
    /\ mutex = "free"
    /\ mutex' = t
    /\ frames' = Goto(t, "drain")
    /\ calls' = [calls EXCEPT ![Top(t).call].state = "drain"]
    /\ UNCHANGED <<queue, log, events, recs, host, origin, fieldVars, debugVars, parseVars, filterVars>>

(* Mutant of DrainPop: the loop pops once to test and once more to take,   *)
(* so every other event is thrown away.                                    *)
DrainPopTwice(t) ==
    /\ At(t, "drain")
    /\ queue # << >>
    /\ log' = IF Len(queue) >= 2 THEN Append(log, queue[2]) ELSE log
    /\ queue' = IF Len(queue) >= 2 THEN Tail(Tail(queue)) ELSE << >>
    /\ UNCHANGED <<mutex, frames, events, recs, host, origin, calls,
                   fieldVars, debugVars, parseVars, filterVars>>

(* events.extend(from_fn(|| EVENT_QUEUE.pop())): one pop that finds an     *)
(* event, which extend pushes on the vector.                               *)
DrainPop(t) ==
    /\ At(t, "drain")
    /\ queue # << >>
    /\ log' = Append(log, Head(queue))
    /\ queue' = Tail(queue)
    /\ UNCHANGED <<mutex, frames, events, recs, host, origin, calls, fieldVars, debugVars, parseVars, filterVars>>

(* Mutant of DrainEnd: the callback is entered before the queue is empty. *)
DrainEndEarly(t) ==
    /\ At(t, "drain")
    /\ frames' = Goto(t, "cb")
    /\ calls' = [calls EXCEPT ![Top(t).call].state = "cb",
                              ![Top(t).call].handed = log]
    /\ UNCHANGED <<queue, log, mutex, events, recs, host, origin, fieldVars, debugVars, parseVars, filterVars>>

(* Mutant of DrainEnd: the loop also waits for the publishes under way.    *)
DrainEndWaits(t) ==
    /\ At(t, "drain")
    /\ queue = << >>
    /\ \A p \in Threads : ~At(p, "push")
    /\ frames' = Goto(t, "cb")
    /\ calls' = [calls EXCEPT ![Top(t).call].state = "cb",
                              ![Top(t).call].handed = log]
    /\ UNCHANGED <<queue, log, mutex, events, recs, host, origin, fieldVars, debugVars, parseVars, filterVars>>

(* The pop that finds the queue empty ends extend; cb(&mut events) is      *)
(* entered with the vector as it is now.                                   *)
DrainEnd(t) ==
    /\ At(t, "drain")
    /\ queue = << >>
    /\ frames' = Goto(t, "cb")
    /\ calls' = [calls EXCEPT ![Top(t).call].state = "cb",
                              ![Top(t).call].handed = log]
    /\ UNCHANGED <<queue, log, mutex, events, recs, host, origin, fieldVars, debugVars, parseVars, filterVars>>

(* cb returns; with_events returns its result and the guard `events` is    *)
(* dropped, which unlocks the mutex.                                       *)
CbReturn(t) ==
    /\ At(t, "cb")
    /\ mutex' = "free"
    /\ frames' = Pop_(t)
    /\ calls' = [calls EXCEPT ![Top(t).call].state = "returned"]
    /\ UNCHANGED <<queue, log, events, recs, host, origin, fieldVars, debugVars, parseVars, filterVars>>

(* Mutant of CbPanic: the guard is not dropped by the unwinding.           *)
CbPanicKeepsLock(t) ==
    /\ At(t, "cb")
    /\ mutex' = mutex
    /\ frames' = Pop_(t)
    /\ calls' = [calls EXCEPT ![Top(t).call].state = "panicked"]
    /\ UNCHANGED <<queue, log, events, recs, host, origin, fieldVars, debugVars, parseVars, filterVars>>

(* cb panics; the unwinding drops the guard `events`, which unlocks the    *)
(* mutex (parking_lot does not poison), and leaves with_events.            *)
CbPanic(t) ==
    /\ At(t, "cb")
    /\ mutex' = "free"
    /\ frames' = Pop_(t)
    /\ calls' = [calls EXCEPT ![Top(t).call].state = "panicked"]
    /\ UNCHANGED <<queue, log, events, recs, host, origin, fieldVars, debugVars, parseVars, filterVars>>

(* Lock, with the history of the call keeping how many publishes had       *)
(* returned when it got the mutex.                                         *)
LockCounted(t) ==
    /\ At(t, "lock")
    /\ mutex = "free"
    /\ mutex' = t
    /\ frames' = Goto(t, "drain")
    /\ calls' = [calls EXCEPT ![Top(t).call] =
                    [thread    |-> @.thread,
                     published |-> @.published,
                     state     |-> "drain",
                     handed    |-> @.handed,
                     locked    |-> Len(events)]]
    /\ UNCHANGED <<queue, log, events, recs, host, origin, fieldVars, debugVars, parseVars, filterVars>>

Init ==
    /\ IdleArchive /\ IdleFields /\ IdleDebug /\ IdleParse /\ IdleFilter

Next ==
    \/ \E t \in Threads : OnEventBuild(t, EventMeta, 0, << >>, 0)
    \/ \E t \in Threads : Push(t)
    \/ \E t \in Consumers : CallWithEvents(t)
    \/ \E t \in Consumers : CbReenter(t)
    \/ \E t \in Consumers : Lock(t)
    \/ \E t \in Consumers : DrainPop(t)
    \/ \E t \in Consumers : DrainEnd(t)
    \/ \E t \in Consumers : CbReturn(t)
    \/ \E t \in Consumers : CbPanic(t)

Spec == Init /\ [][Next]_vars

(* SpecLive: the same program, with the thread that is inside             *)
(* events.extend(..) scheduled again and again: it is running, holds the   *)
(* mutex, and waits for nothing.  Producers publish MaxPub + 1 events in   *)
(* all and may stop at any point.                                          *)
InitLive == Init

NextLive ==
    \/ \E t \in Threads : OnEventBuild(t, EventMeta, 0, << >>, 0)
    \/ \E t \in Threads : Push(t)
    \/ \E t \in Consumers : CallWithEvents(t)
    \/ \E t \in Consumers : CbReenter(t)
    \/ \E t \in Consumers : Lock(t)
    \/ \E t \in Consumers : DrainPop(t)
    \/ \E t \in Consumers : DrainEnd(t)
    \/ \E t \in Consumers : CbReturn(t)
    \/ \E t \in Consumers : CbPanic(t)

FairDrain == \A t \in Consumers : WF_vars(DrainPop(t) \/ DrainEnd(t))

SpecLive == InitLive /\ [][NextLive]_vars /\ FairDrain

(* SpecHeld: the same program, with the lock history kept.                 *)
InitHeld == Init

NextHeld ==
    \/ \E t \in Threads : OnEventBuild(t, EventMeta, 0, << >>, 0)
    \/ \E t \in Threads : Push(t)
    \/ \E t \in Consumers : CallWithEvents(t)
    \/ \E t \in Consumers : CbReenter(t)
    \/ \E t \in Consumers : LockCounted(t)
    \/ \E t \in Consumers : DrainPop(t)
    \/ \E t \in Consumers : DrainEnd(t)
    \/ \E t \in Consumers : CbReturn(t)
    \/ \E t \in Consumers : CbPanic(t)

SpecHeld == InitHeld /\ [][NextHeld]_vars

---------------------------------------------------------------------------
(* layer.rs: the capture layer over the host registry (SpecCapture).       *)
(*                                                                         *)
(* host[h] = [meta, parent, ext, open, first]: the registry's entry of     *)
(* span h, parent the enclosing host span (0: none), ext the Arc<Span> in  *)
(* its extension storage (0: none), first (history) the record new_span    *)
(* built for it.  recs[r] = [meta, fields, parent]: the     *)
(* Span record allocated r-th, parent an Arc<Span> (0: None).              *)

(* &'static Metadata of the span callsites: one that opens root spans, one *)
(* that opens spans inside another span.                                   *)
SpanMeta(p) ==
    IF p = 0 THEN [target |-> "app", name |-> "outer", level |-> "INFO"]
    ELSE [target |-> "app::db", name |-> "inner", level |-> "DEBUG"]

(* Local::now().naive_local(): what the wall clock reads.  No operation    *)
(* reads a timestamp back, so one reading stands for all.                  *)
Times == {1}

(* The value sets the host hands over: the attributes of a new span, the   *)
(* values of a later record, the fields of an event.                       *)
SpanAttributes == { << >>, <<NameValue("a", [ty |-> "i64", i |-> 1])>> }

RecordValues == { <<NameValue("a", [ty |-> "i64", i |-> 2])>> }

EventValues == { <<NameValue("b", [ty |-> "str", s |-> "x"])>> }

OpenSpans == {h \in DOMAIN host : host[h].open}

(* The records reached from r by parent links, r included.                 *)
RECURSIVE ChainSet(_, _)
ChainSet(rs, r) == IF r = 0 THEN {} ELSE {r} \cup ChainSet(rs, rs[r].parent)

(* Arc<Span> handles alive outside the records: extension slots, archived  *)
(* events, and the event a thread has built and not yet pushed.            *)
BuildingSpans == {Top(t).archived.span : t \in {u \in Threads : At(u, "push")}}

Live ==
    UNION {ChainSet(recs, r) :
              r \in ({host[h].ext : h \in DOMAIN host}
                     \cup {events[i].span : i \in DOMAIN events}
                     \cup BuildingSpans) \ {0}}

(* Arc::strong_count of record r.                                          *)
StrongCount(r) ==
    Cardinality({h \in DOMAIN host : host[h].ext = r})
      + Cardinality({i \in DOMAIN events : events[i].span = r})
      + Cardinality({t \in Threads : At(t, "push") /\ Top(t).archived.span = r})
      + Cardinality({q \in Live : recs[q].parent = r})

(* Mutant of on_span: the record behind the handle is always written in    *)
(* place, shared or not.                                                   *)
on_span_InPlace(hostS, h, nvs) ==
    LET r == hostS[h].ext
    IN  IF r # 0
        THEN [host |-> hostS,
              recs |-> [recs EXCEPT ![r].fields = RecordSpan(@, nvs)]]
        ELSE [host |-> [hostS EXCEPT ![h].ext = Len(recs) + 1],
              recs |-> Append(recs,
                         [meta   |-> hostS[h].meta,
                          fields |-> RecordSpan(<< >>, nvs),
                          parent |-> IF hostS[h].parent = 0 THEN 0
                                     ELSE hostS[hostS[h].parent].ext])]

(* Mutant of on_span: the clone is built anew, with no parent link.        *)
on_span_CloneOrphaned(hostS, h, nvs) ==
    LET r == hostS[h].ext
    IN  IF r # 0
        THEN IF StrongCount(r) = 1
             THEN [host |-> hostS,
                   recs |-> [recs EXCEPT ![r].fields = RecordSpan(@, nvs)]]
             ELSE [host |-> [hostS EXCEPT ![h].ext = Len(recs) + 1],
                   recs |-> Append(recs, [recs[r] EXCEPT
                                             !.fields = RecordSpan(@, nvs),
                                             !.parent = 0])]
        ELSE [host |-> [hostS EXCEPT ![h].ext = Len(recs) + 1],
              recs |-> Append(recs,
                         [meta   |-> hostS[h].meta,
                          fields |-> RecordSpan(<< >>, nvs),
                          parent |-> IF hostS[h].parent = 0 THEN 0
                                     ELSE hostS[hostS[h].parent].ext])]

(* Mutant of on_span: the record is always cloned, uniquely held or not.   *)
on_span_AlwaysClone(hostS, h, nvs) ==
    LET r == hostS[h].ext
    IN  IF r # 0
        THEN [host |-> [hostS EXCEPT ![h].ext = Len(recs) + 1],
              recs |-> Append(recs, [recs[r] EXCEPT
                                        !.fields = RecordSpan(@, nvs)])]
        ELSE [host |-> [hostS EXCEPT ![h].ext = Len(recs) + 1],
              recs |-> Append(recs,
                         [meta   |-> hostS[h].meta,
                          fields |-> RecordSpan(<< >>, nvs),
                          parent |-> IF hostS[h].parent = 0 THEN 0
                                     ELSE hostS[hostS[h].parent].ext])]

(* layer.rs on_span(span, fields), on the registry hostS: the new registry *)
(* and heap.  Some(archived): Arc::make_mut gives the record itself when   *)
(* the handle is the only one, else a clone that replaces the handle in    *)
(* the extension slot; the fields are recorded on what it gives.  None: a  *)
(* record is built with the parent's handle and inserted.                  *)
on_span(hostS, h, nvs) ==
    LET r == hostS[h].ext
    IN  IF r # 0
        THEN IF StrongCount(r) = 1
             THEN [host |-> hostS,
                   recs |-> [recs EXCEPT ![r].fields = RecordSpan(@, nvs)]]
             ELSE [host |-> [hostS EXCEPT ![h].ext = Len(recs) + 1],
                   recs |-> Append(recs, [recs[r] EXCEPT
                                             !.fields = RecordSpan(@, nvs)])]
        ELSE [host |-> [hostS EXCEPT ![h].ext = Len(recs) + 1],
              recs |-> Append(recs,
                         [meta   |-> hostS[h].meta,
                          fields |-> RecordSpan(<< >>, nvs),
                          parent |-> IF hostS[h].parent = 0 THEN 0
                                     ELSE hostS[hostS[h].parent].ext])]

NumValues(fm, n) ==
    IF ~HasEntry(fm, n) THEN 0
    ELSE IF IsMultiple(Get(fm, n)) THEN Len(Get(fm, n).xs) ELSE 1

(* Layer::new_span: the registry has just created span h under parent p    *)
(* (0: a root span); on_span(span, attrs).                                 *)
NewSpan(p, nvs) ==
    /\ Len(host) < MaxSpans
    /\ Len(recs) < MaxRecs
    /\ p = 0 \/ p \in OpenSpans
    /\ LET h   == Len(host) + 1
           out == on_span(Append(host, [meta |-> SpanMeta(p), parent |-> p,
                                        ext |-> 0, open |-> TRUE,
                                        first |-> Len(recs) + 1]), h, nvs)
       IN  host' = out.host /\ recs' = out.recs
    /\ UNCHANGED <<queue, log, mutex, frames, events, origin, calls,
                   fieldVars, debugVars, parseVars, filterVars>>

(* Layer::on_record: on_span(span, values) for an existing span.           *)
OnRecord(h, nvs) ==
    /\ h \in OpenSpans
    /\ Len(recs) < MaxRecs
    /\ nvs # << >>
    /\ host[h].ext # 0 =>
           NumValues(recs[host[h].ext].fields, nvs[1].name) < MaxSpanValues
    /\ LET out == on_span(host, h, nvs)
       IN  host' = out.host /\ recs' = out.recs
    /\ UNCHANGED <<queue, log, mutex, frames, events, origin, calls,
                   fieldVars, debugVars, parseVars, filterVars>>

(* The span exits for the last time (as at the end of an instrumented      *)
(* function) and the registry drops its extension storage; a span stays    *)
(* while a child of it is open.                                            *)
CloseSpan(h) ==
    /\ h \in OpenSpans
    /\ \A c \in OpenSpans : host[c].parent # h
    /\ host' = [host EXCEPT ![h].open = FALSE, ![h].ext = 0]
    /\ UNCHANGED <<queue, log, mutex, frames, events, recs, origin, calls,
                   fieldVars, debugVars, parseVars, filterVars>>

(* with_events run from lock to return with no other thread stepping in    *)
(* between and a callback that only reads: the queue is drained to the     *)
(* vector in order, the callback sees it, the guard is dropped.            *)
Snapshot(t) ==
    /\ frames[t] = << >>
    /\ mutex = "free"
    /\ Cardinality({k \in DOMAIN calls : calls[k].thread = t}) < CallBudget(t)
    /\ log' = log \o queue
    /\ queue' = << >>
    /\ calls' = Append(calls, [thread    |-> t,
                               published |-> Len(events),
                               state     |-> "returned",
                               handed    |-> log \o queue])
    /\ UNCHANGED <<mutex, frames, events, recs, host, origin,
                   fieldVars, debugVars, parseVars, filterVars>>

InitCapture ==
    /\ IdleArchive /\ IdleFields /\ IdleDebug /\ IdleParse /\ IdleFilter

NextCapture ==
    \/ \E p \in {0} \cup DOMAIN host, nvs \in SpanAttributes : NewSpan(p, nvs)
    \/ \E h \in DOMAIN host, nvs \in RecordValues : OnRecord(h, nvs)
    \/ \E h \in DOMAIN host : CloseSpan(h)
    \/ \E now \in Times, nvs \in EventValues, h \in OpenSpans :
           OnEventBuild("p1", EventMeta, now, nvs, h)
    \/ Push("p1")
    \/ Snapshot("c2")

SpecCapture == InitCapture /\ [][NextCapture]_vars

---------------------------------------------------------------------------
(* Claims about the archive (Spec).                                        *)

(* The calls whose callback has been handed the vector.                    *)
HandedCalls == {k \in DOMAIN calls : calls[k].state \in {"cb", "returned", "panicked"}}

Occurrences(v, e) == Cardinality({j \in DOMAIN v : v[j] = e})

PositionOf(v, e) == CHOOSE j \in DOMAIN v : v[j] = e

\* C1: whatever the interleaving, every event whose publish returned before a
\* with_events call started is exactly once in the vector handed to that call's
\* callback, the vector lists events in the order they were pushed on the
\* queue, without repetition, and the drain loses no event: vector and queue
\* together always hold every published event once, in publication order.
C1_SnapshotCompleteFifo ==
    /\ log \o queue = [i \in 1..Len(events) |-> i]
    /\ \A k \in HandedCalls :
          LET v == calls[k].handed
          IN  /\ \A e \in 1..calls[k].published : Occurrences(v, e) = 1
              /\ \A i, j \in DOMAIN v : i < j => v[i] < v[j]

\* C1 witness: a second callback is handed a vector holding events of both
\* producers, one of which the first callback had not seen.
C1_Witness ==
    \E k1, k2 \in HandedCalls :
        /\ k1 < k2
        /\ calls[k1].published >= 1
        /\ Len(calls[k2].handed) > Len(calls[k1].handed)
        /\ calls[k2].published >= 3
        /\ \E i, j \in Range(calls[k2].handed) :
               origin[i][1] = "p1" /\ origin[j][1] = "p2"

\* C2: in every vector handed to a callback, two events published by the same
\* thread stand in the order that thread published them.
C2_ProgramOrder ==
    \A k \in HandedCalls :
        LET v == calls[k].handed
        IN  \A i, j \in DOMAIN v :
                /\ origin[v[i]][1] = origin[v[j]][1]
                /\ origin[v[i]][2] < origin[v[j]][2]
                => i < j

\* C2 witness: a vector holds both events of the first producer with an event
\* of the second producer between them, the first two drained by an earlier
\* call than the third.
C2_Witness ==
    \E k1, k2 \in HandedCalls :
        LET v == calls[k2].handed
        IN  /\ k1 < k2
            /\ Len(calls[k1].handed) = 2
            /\ Len(v) >= 3
            /\ origin[v[1]] = <<"p1", 1>>
            /\ origin[v[2]][1] = "p2"
            /\ origin[v[3]] = <<"p1", 2>>

\* C3: publishing never waits on the archive mutex: in every reachable state a
\* thread that has built its event record can push it, whoever holds the mutex.
C3_PublishNeverBlocks ==
    \A t \in Threads : At(t, "push") => ENABLED Push(t)

\* C3 witness: a producer is about to push while a consumer is draining under
\* the mutex and the other producer is about to push too.
C3_Witness ==
    /\ At("p1", "push") /\ At("p2", "push")
    /\ mutex = "c1" /\ At("c1", "drain")
    /\ queue # << >>

(* Thread t called with_events from inside its with_events callback.       *)
Reentered(t) ==
    /\ Len(frames[t]) = 2
    /\ frames[t][1].pc = "cb"
    /\ frames[t][2].pc = "lock"

\* C4: a with_events call made from inside a with_events callback deadlocks:
\* the outer call holds the mutex, and from then on no step lets the inner call
\* acquire it, invokes the inner callback, or ends the inner or the outer call.
C4_ReentryDeadlocks ==
    [][\A t \in Consumers :
          Reentered(t) =>
              /\ mutex = t /\ mutex' = t
              /\ frames'[t] = frames[t]
              /\ calls'[frames[t][1].call] = calls[frames[t][1].call]
              /\ calls'[frames[t][2].call] = calls[frames[t][2].call]
              /\ calls[frames[t][2].call].state = "lock"]_vars

\* C4 witness: a consumer is blocked in a re-entrant call while events wait in
\* the queue.
C4_Witness ==
    /\ Reentered("c1")
    /\ queue # << >>
    /\ Len(events) = MaxPub + 1

(* Thread t is inside with_events with the guard alive.                    *)
HoldsGuard(t) == \E i \in DOMAIN frames[t] : frames[t][i].pc \in {"drain", "cb"}

\* C5: the mutex is held only by a thread inside with_events between its lock
\* and its exit, so it is free once the call has ended by return or by panic;
\* the events a call drained stay in the archive vector after it ended; and a
\* call waiting at the lock can take the mutex whenever no call is inside.
C5_MutexReleasedOnExit ==
    /\ \A t \in Threads : mutex = t => HoldsGuard(t)
    /\ mutex \in {"free"} \cup Consumers
    /\ \A k \in DOMAIN calls :
          calls[k].state \in {"returned", "panicked"} => IsPrefix(calls[k].handed, log)
    /\ \A t \in Consumers :
          (At(t, "lock") /\ \A u \in Threads : ~HoldsGuard(u)) => ENABLED Lock(t)

\* C5 witness: a call whose callback panicked after events had been drained is
\* followed by a later call that holds the mutex and runs its callback.
C5_Witness ==
    \E k1, k2 \in DOMAIN calls :
        /\ k1 < k2
        /\ calls[k1].state = "panicked"
        /\ calls[k1].handed # << >>
        /\ calls[k2].state = "cb"
        /\ mutex = calls[k2].thread
        /\ IsPrefix(calls[k1].handed, calls[k2].handed)

---------------------------------------------------------------------------
(* Claims about the capture layer (SpecCapture).                           *)

(* Record r is held by an event (archived, or built and about to be        *)
(* pushed) or by a live child record.                                      *)
HeldByEventOrChild(r) ==
    \/ \E i \in DOMAIN events : events[i].span = r
    \/ r \in BuildingSpans
    \/ \E q \in Live : recs[q].parent = r

\* C9: an on_record notification for a span with an installed record r changes
\* r in place (same handle in the extension slot, no allocation) when no event
\* and no child span holds r; when one does, a clone of r with the new values
\* recorded on it is allocated and installed in the span's extension slot and
\* r itself is left as it was.  No other record and no other slot changes.
C9_CopyOnWrite ==
    [][\A h \in DOMAIN host, nvs \in RecordValues :
          (OnRecord(h, nvs) /\ host[h].ext # 0) =>
              LET r       == host[h].ext
                  updated == [recs[r] EXCEPT !.fields = RecordSpan(@, nvs)]
              IN  /\ IF ~HeldByEventOrChild(r)
                     THEN /\ host'[h].ext = r
                          /\ Len(recs') = Len(recs)
                          /\ recs'[r] = updated
                     ELSE /\ host'[h].ext = Len(recs) + 1
                          /\ Len(recs') = Len(recs) + 1
                          /\ recs'[host'[h].ext] = updated
                          /\ recs'[r] = recs[r]
                  /\ \A q \in DOMAIN recs \ {r} : recs'[q] = recs[q]
                  /\ \A g \in DOMAIN host \ {h} : host'[g] = host[g]]_vars

\* C9 witness: the first record was changed in place while uniquely held (it
\* holds a value recorded after creation), was then captured by an event, and
\* a later on_record installed a clone carrying one more value.
C9_Witness ==
    /\ Len(recs) >= 2 /\ Len(events) >= 1
    /\ events[1].span = 1
    /\ host[1].ext = 2
    /\ recs[1].fields = RecordSpan(<< >>, <<NameValue("a", [ty |-> "i64", i |-> 2])>>)
    /\ recs[2].meta = recs[1].meta /\ recs[2].parent = recs[1].parent
    /\ NumValues(recs[2].fields, "a") = 2

(* The span records seen from record r by parent(), r first.               *)
RECURSIVE ChainRecords(_, _)
ChainRecords(rs, r) ==
    IF r = 0 THEN << >> ELSE <<rs[r]>> \o ChainRecords(rs, rs[r].parent)

\* C10: once an event has been pushed, no step of the capture layer and no
\* snapshot changes its metadata, timestamp, fields or span handle, nor the
\* metadata, fields or parent link of any span record reached from it by
\* span() and parent().
C10_EventImmutable ==
    [][\A i \in DOMAIN events :
          /\ i \in DOMAIN events'
          /\ events'[i] = events[i]
          /\ ChainRecords(recs', events[i].span) = ChainRecords(recs, events[i].span)]_vars

\* C10 witness: an archived event, already drained by a snapshot, sits in a
\* child span, and a later on_record on the parent span has put a record with
\* more values in the parent's slot than the one the event reaches.
C10_Witness ==
    /\ Len(events) >= 1 /\ log # << >>
    /\ events[1].span # 0
    /\ recs[events[1].span].parent # 0
    /\ \E h \in OpenSpans :
          /\ host[h].parent \in OpenSpans
          /\ host[h].ext = events[1].span
          /\ host[host[h].parent].ext # recs[events[1].span].parent
          /\ NumValues(recs[host[host[h].parent].ext].fields, "a")
                 > NumValues(recs[recs[events[1].span].parent].fields, "a")

(* The records new_span built, one per host span.                          *)
CreationRecords == {host[h].first : h \in DOMAIN host}

\* C11 as stated: every record reached from an archived event by span() and
\* parent() is the record built when its span was created.
C11_AsStated ==
    \A i \in DOMAIN events :
        ChainSet(recs, events[i].span) \subseteq CreationRecords

\* C11: events and child spans hold references, never copies: an event built
\* in span h holds, by identity, the record then installed in h's extension
\* slot (the one built at span creation, or the clone a later on_record
\* installed), and building or pushing it allocates no span record; a new span
\* under parent p allocates exactly its own record, whose parent link is, by
\* identity, the record then installed in p's slot; parent links never change.
C11_SharedByReference ==
    [][/\ \A h \in DOMAIN host, now \in Times, nvs \in EventValues :
             OnEventBuild("p1", EventMeta, now, nvs, h) =>
                 /\ Top("p1")'.archived.span = host[h].ext
                 /\ recs' = recs
       /\ Push("p1") =>
                 /\ events'[Len(events')].span = Top("p1").archived.span
                 /\ recs' = recs
       /\ \A p \in {0} \cup DOMAIN host, nvs \in SpanAttributes :
             NewSpan(p, nvs) =>
                 /\ Len(recs') = Len(recs) + 1
                 /\ \A q \in DOMAIN recs : recs'[q] = recs[q]
                 /\ recs'[Len(recs')].parent = (IF p = 0 THEN 0 ELSE host[p].ext)
       /\ \A q \in DOMAIN recs : recs'[q].parent = recs[q].parent]_vars

\* C11 witness: two archived events of one span; the first holds the record
\* built at span creation, the second the clone an on_record between them
\* installed, which is the record in the span's slot.
C11_Witness ==
    /\ Len(events) = 2
    /\ \E h \in DOMAIN host :
          /\ events[1].span = host[h].first
          /\ events[2].span = host[h].ext
          /\ host[h].ext # host[h].first

---------------------------------------------------------------------------
(* parse-env-filter/src/lazy.rs: the directive parser (SpecParse).         *)
(*                                                                         *)
(* A &str borrowed from the input is a Slice(lo, hi) of text: the bytes    *)
(* text[lo+1] .. text[hi].  Indices inside a slice count from 0, as in the *)
(* source.                                                                 *)

Bytes(d) == SubSeq(text, d.lo + 1, d.hi)

Size(d) == d.hi - d.lo

ByteAt(d, i) == text[d.lo + i + 1]

(* Mutant of Upto: the slice starts at the start of the text.             *)
UptoFromStart(d, i) == Slice(0, d.lo + i)

(* &d[i..] and &d[..i]                                                     *)
From(d, i) == Slice(d.lo + i, d.hi)

Upto(d, i) == Slice(d.lo, d.lo + i)

(* self.directives = ""                                                    *)
Cleared == Slice(0, 0)

IsEmpty(d) == Size(d) = 0

StartsWith(d, c) == ~IsEmpty(d) /\ ByteAt(d, 0) = c

Contains(d, c) == \E i \in 0 .. Size(d) - 1 : ByteAt(d, i) = c

Least(S) == CHOOSE i \in S : \A j \in S : i <= j

(* enum Syntax                                                             *)
Syntax == {"[", "]", "{", "}", "=", ","}

(* Result and the two ParseError kinds.                                    *)
Ok(v) == [ok |-> TRUE, val |-> v]

Err(e) == [ok |-> FALSE, err |-> e]

(* What a parsing method leaves: its result and the new self.directives.   *)
Left(res, d) == [res |-> res, d |-> d]

(* err(): the input is cleared and BadSyntax returned.                     *)
(* Mutant of BadSyntax: the error leaves the whole text to be parsed.      *)
BadSyntaxNotCleared == Left(Err("BadSyntax"), Slice(0, Len(text)))

BadSyntax == Left(Err("BadSyntax"), Cleared)

(* find_any_syntax: the index of the first structural byte and the byte,   *)
(* or the length and "%" for end of text.                                  *)
FirstSyntax(d, hits) ==
    IF hits = {} THEN [i |-> Size(d), c |-> "%"]
    ELSE [i |-> Least(hits), c |-> ByteAt(d, Least(hits))]

find_any_syntax(d) ==
    FirstSyntax(d, {i \in 0 .. Size(d) - 1 : ByteAt(d, i) \in Syntax})

(* find_syntax: the index of the first byte equal to c, if any.            *)
Position(hits) == IF hits = {} THEN None ELSE Some(Least(hits))

find_syntax(d, c) == Position({i \in 0 .. Size(d) - 1 : ByteAt(d, i) = c})

(* Mutant of Reserved: only the quote is looked for.                       *)
ReservedQuoteOnly(d) == Contains(d, "\"")

(* The reserved syntax test of the three next().                           *)
Reserved(d) == Contains(d, "\"") \/ Contains(d, "/")

(* Mutant of Comma: what follows the separating byte is dropped.           *)
CommaDropsRest(d) ==
    IF StartsWith(d, ",") THEN Left(Ok(<< >>), From(d, Size(d)))
    ELSE IF IsEmpty(d) THEN Left(Ok(<< >>), d)
    ELSE BadSyntax

(* comma(), the same in Filters, SpanFilters and FieldFilters.             *)
Comma(d) ==
    IF StartsWith(d, ",") THEN Left(Ok(<< >>), From(d, 1))
    ELSE IF IsEmpty(d) THEN Left(Ok(<< >>), d)
    ELSE BadSyntax

(* The ? operator inside the closure of next(): an Err is the item, an Ok  *)
(* goes on to the rest of the closure.                                     *)
Try(r, Rest(_)) == IF ~r.res.ok THEN Left(Some(r.res), r.d) ELSE Rest(r)

(* ---- Filters ----                                                       *)

TargetAt(d, f) ==
    IF f.c \in {"]", "{", "}"} THEN BadSyntax
    ELSE Left(Ok(Upto(d, f.i)), From(d, f.i))

FiltersTarget(d) == TargetAt(d, find_any_syntax(d))

(* Mutant of Section: a section with no closing byte runs to the end.     *)
SectionToEnd(stripped, i) ==
    IF ~i.some THEN Left(Ok(Some(stripped)), Cleared)
    ELSE Left(Ok(Some(Upto(stripped, i.val))), From(stripped, i.val + 1))

(* Mutant of Section: the closing byte is kept in the section.             *)
SectionWithClosing(stripped, i) ==
    IF ~i.some THEN BadSyntax
    ELSE Left(Ok(Some(Upto(stripped, i.val + 1))), From(stripped, i.val + 1))

(* The match on find_syntax after the opening byte has been stripped.      *)
Section(stripped, i) ==
    IF ~i.some THEN BadSyntax
    ELSE Left(Ok(Some(Upto(stripped, i.val))), From(stripped, i.val + 1))

(* Mutant of FiltersSpan: the text of the section is validated when the    *)
(* section is cut out.                                                     *)
FiltersSpanValidated(d) ==
    IF ~StartsWith(d, "[") THEN Left(Ok(None), d)
    ELSE IF ~find_syntax(From(d, 1), "]").some THEN BadSyntax
    ELSE IF find_any_syntax(From(d, 1)).c # "]" THEN BadSyntax
    ELSE Section(From(d, 1), find_syntax(From(d, 1), "]"))

FiltersSpan(d) ==
    IF StartsWith(d, "[") THEN Section(From(d, 1), find_syntax(From(d, 1), "]"))
    ELSE Left(Ok(None), d)

LevelAt(stripped, f) ==
    IF f.c \in {"[", "]", "{", "}", "="} THEN BadSyntax
    ELSE Left(Ok(Some(Upto(stripped, f.i))), From(stripped, f.i))

(* Mutant of FiltersLevel: what follows the section is read as the level   *)
(* text whether or not a `=` opens it.                                     *)
FiltersLevelNoEquals(d) ==
    IF IsEmpty(d) \/ StartsWith(d, ",") THEN Left(Ok(None), d)
    ELSE IF ~StartsWith(d, "=") THEN LevelAt(d, find_any_syntax(d))
    ELSE LevelAt(From(d, 1), find_any_syntax(From(d, 1)))

FiltersLevel(d) ==
    IF IsEmpty(d) \/ StartsWith(d, ",") THEN Left(Ok(None), d)
    ELSE IF ~StartsWith(d, "=") THEN BadSyntax
    ELSE LevelAt(From(d, 1), find_any_syntax(From(d, 1)))

Filter(target, span, level) == [target |-> target, span |-> span, level |-> level]

(* Mutant of FiltersNext: the reserved syntax error leaves the input as it  *)
(* was.                                                                    *)
FiltersNextReservedKept(d) ==
    IF IsEmpty(d) THEN Left(None, d)
    ELSE IF Reserved(d) THEN Left(Some(Err("ReservedSyntax")), d)
    ELSE Try(FiltersTarget(d), LAMBDA target :
         Try(FiltersSpan(target.d), LAMBDA span :
         Try(FiltersLevel(span.d), LAMBDA level :
         Try(Comma(level.d), LAMBDA comma :
         Left(Some(Ok(Filter(target.res.val, span.res.val, level.res.val))),
              comma.d)))))

(* Filters::next: what it returns and what self.directives is afterwards.  *)
FiltersNext(d) ==
    IF IsEmpty(d) THEN Left(None, d)
    ELSE IF Reserved(d) THEN Left(Some(Err("ReservedSyntax")), Cleared)
    ELSE Try(FiltersTarget(d), LAMBDA target :
         Try(FiltersSpan(target.d), LAMBDA span :
         Try(FiltersLevel(span.d), LAMBDA level :
         Try(Comma(level.d), LAMBDA comma :
         Left(Some(Ok(Filter(target.res.val, span.res.val, level.res.val))),
              comma.d)))))

(* ---- SpanFilters ----                                                   *)

NameAt(d, f) ==
    IF f.c \in {"[", "]", "}", "="} THEN BadSyntax
    ELSE Left(Ok(Upto(d, f.i)), From(d, f.i))

SpanFiltersName(d) == NameAt(d, find_any_syntax(d))

SpanFiltersFields(d) ==
    IF StartsWith(d, "{") THEN Section(From(d, 1), find_syntax(From(d, 1), "}"))
    ELSE Left(Ok(None), d)

SpanFilter(name, fields) == [name |-> name, fields |-> fields]

SpanFiltersNext(d) ==
    IF IsEmpty(d) THEN Left(None, d)
    ELSE IF Reserved(d) THEN Left(Some(Err("ReservedSyntax")), Cleared)
    ELSE Try(SpanFiltersName(d), LAMBDA name :
         Try(SpanFiltersFields(name.d), LAMBDA fields :
         Try(Comma(fields.d), LAMBDA comma :
         Left(Some(Ok(SpanFilter(name.res.val, fields.res.val))), comma.d))))

(* ---- FieldFilters ----                                                  *)

FieldNameAt(d, f) ==
    IF f.c \in {"[", "]", "{", "}"} THEN BadSyntax
    ELSE Left(Ok(Upto(d, f.i)), From(d, f.i))

FieldFiltersName(d) == FieldNameAt(d, find_any_syntax(d))

ValueAt(stripped, f) ==
    IF f.c \in {"[", "]", "{", "}", "="} THEN BadSyntax
    ELSE Left(Ok(Some(Upto(stripped, f.i))), From(stripped, f.i))

FieldFiltersValue(d) ==
    IF ~StartsWith(d, "=") THEN Left(Ok(None), d)
    ELSE ValueAt(From(d, 1), find_any_syntax(From(d, 1)))

FieldFilter(name, value) == [name |-> name, value |-> value]

FieldFiltersNext(d) ==
    IF IsEmpty(d) THEN Left(None, d)
    ELSE IF Reserved(d) THEN Left(Some(Err("ReservedSyntax")), Cleared)
    ELSE Try(FieldFiltersName(d), LAMBDA name :
         Try(FieldFiltersValue(name.d), LAMBDA value :
         Try(Comma(value.d), LAMBDA comma :
         Left(Some(Ok(FieldFilter(name.res.val, value.res.val))), comma.d))))

---------------------------------------------------------------------------
(* parse-env-filter/src/eager.rs: the three levels collected into vectors. *)

(* collect::<Result<Vec<_>, _>>() over iter.map(|x| T::try_from(x?)): n is *)
(* what the iterator's next() left; the collecting stops at None and at    *)
(* the first Err, of the iterator or of try_from.                          *)
(* Mutant of Prepend: the item is put after the items that follow it.     *)
PrependReversed(this, rest) ==
    IF ~this.ok THEN this
    ELSE IF rest.ok THEN Ok(rest.val \o <<this.val>>) ELSE rest

Prepend(this, rest) ==
    IF ~this.ok THEN this
    ELSE IF rest.ok THEN Ok(<<this.val>> \o rest.val) ELSE rest

Collect(n, TryFrom(_), Rest(_)) ==
    IF ~n.res.some THEN Ok(<< >>)
    ELSE IF ~n.res.val.ok THEN n.res.val
    ELSE Prepend(TryFrom(n.res.val.val), Rest(n.d))

(* Option::map(|filters| ..collect()).transpose()                          *)
Wrap(r) == IF r.ok THEN Ok(Some(r.val)) ELSE r

Transpose(opt, Collected(_)) ==
    IF ~opt.some THEN Ok(None) ELSE Wrap(Collected(opt.val))

(* filters.collect() of a FieldFilters over d.                             *)
RECURSIVE CollectFields(_)
CollectFields(d) == Collect(FieldFiltersNext(d), Ok, CollectFields)

(* SpanFilter::try_from                                                    *)
WithFields(name, fields) ==
    IF ~fields.ok THEN fields ELSE Ok(SpanFilter(name, fields.val))

SpanFilterTryFrom(filter) ==
    WithFields(filter.name, Transpose(filter.fields, CollectFields))

RECURSIVE CollectSpans(_)
CollectSpans(d) == Collect(SpanFiltersNext(d), SpanFilterTryFrom, CollectSpans)

(* Filter::try_from                                                        *)
WithSpan(target, span, level) ==
    IF ~span.ok THEN span ELSE Ok(Filter(target, span.val, level))

FilterTryFrom(filter) ==
    WithSpan(filter.target, Transpose(filter.span, CollectSpans), filter.level)

RECURSIVE CollectFilters(_)
CollectFilters(d) == Collect(FiltersNext(d), FilterTryFrom, CollectFilters)

(* eager::filters(directives), on the whole of text.                       *)
EagerFilters == CollectFilters(Slice(0, Len(text)))

---------------------------------------------------------------------------
(* SpecParse: the inputs.                                                  *)

Alphabet == {"a", "[", "]", "{", "}", "=", ",", "\"", "/"}

(* Every string of up to MaxText bytes.                                    *)
AllTexts == SeqsUpTo(Alphabet, MaxText)

(* Texts with no structural and no reserved byte.                          *)
Words == SeqsUpTo({"a"}, MaxWord) \cup {<<"b">>}

Opt(S) == {None} \cup {Some(x) : x \in S}

(* The parts a directive target[span{field=value}]=level is written from.  *)
FieldShapes(W) == [name : W, value : Opt(W)]

SpanShapes(W) == [name : W, field : Opt(FieldShapes(W))]

DirectiveShapes(W) == [target : W, span : Opt(SpanShapes(W)), level : Opt(W)]

FieldText(f) ==
    f.name \o (IF f.value.some THEN <<"=">> \o f.value.val ELSE << >>)

SpanText(sp) ==
    sp.name \o (IF sp.field.some THEN <<"{">> \o FieldText(sp.field.val) \o <<"}">>
                ELSE << >>)

DirectiveText(p) ==
    p.target
      \o (IF p.span.some THEN <<"[">> \o SpanText(p.span.val) \o <<"]">> ELSE << >>)
      \o (IF p.level.some THEN <<"=">> \o p.level.val ELSE << >>)

RECURSIVE ListText(_)
ListText(ps) ==
    IF ps = << >> THEN << >>
    ELSE IF Len(ps) = 1 THEN DirectiveText(ps[1])
    ELSE DirectiveText(ps[1]) \o <<",">> \o ListText(Tail(ps))

(* Single directives over every word, and comma-separated lists of        *)
(* directives with or without a target, a full bracket section, a level.   *)
FullSpan == [name |-> <<"a">>, field |-> Some([name |-> <<"a">>, value |-> Some(<<"b">>)])]

ListDirectives ==
    [target : {<< >>, <<"a">>}, span : Opt({FullSpan}), level : Opt({<<"a">>})]

ShapeLists ==
    {<<p>> : p \in DirectiveShapes(Words)}
      \cup UNION {[1 .. k -> ListDirectives] : k \in 2 .. MaxDirectives}

(* A directive with a reserved byte put in at any place.                   *)
Insert(t, k, c) == SubSeq(t, 1, k) \o <<c>> \o SubSeq(t, k + 1, Len(t))

ReservedTexts ==
    UNION {{Insert(DirectiveText(p), k, c) :
               k \in 0 .. Len(DirectiveText(p)), c \in {"\"", "/"}} :
           p \in DirectiveShapes({<<"a">>})}

(* A bracket section begun with a span name, a field name or a field value,*)
(* then any structural byte and any tail.                                  *)
SpanNameHeads == {<<"a", "[">> \o S : S \in {<< >>, <<"a">>}}

FieldNameHeads == {h \o <<"{", "a">> : h \in SpanNameHeads}

ValueHeads == {h \o <<"=", "a">> : h \in FieldNameHeads}

BracketTexts ==
    {h \o <<c>> \o r : h \in SpanNameHeads \cup FieldNameHeads \cup ValueHeads,
                        c \in Syntax,
                        r \in SeqsUpTo({"a"} \cup Syntax, MaxRest)}

---------------------------------------------------------------------------
(* SpecParse: a consumer of the lazy parser, free to pull any of the three *)
(* iterators it holds, and a call of eager::filters on the same text.      *)

(* A directive whose bracket section breaks the grammar of spans or of     *)
(* fields, followed by a second directive.                                 *)
BrokenSections ==
    { <<"a", "[", "a">>, <<"a", "{", "a">>, <<"a", "{", "a", "=", "a", "=", "}">> }

FollowedTexts == {<<"a", "[">> \o b \o <<"]", ",", "a">> : b \in BrokenSections}

(* filters(directives): Filters { directives }                             *)
InitParse ==
    /\ IdleArchive /\ IdleFields /\ IdleDebug /\ IdleFilter
    /\ \/ /\ text \in AllTexts \cup ReservedTexts \cup BracketTexts \cup FollowedTexts
          /\ written = None
       \/ \E ps \in ShapeLists :
             /\ text = ListText(ps)
             /\ written = Some(ps)
    /\ filtersDirectives = Slice(0, Len(text))
    /\ spanDirectives = None /\ fieldDirectives = None
    /\ tree = << >> /\ last = [f |-> "fresh", s |-> "absent", d |-> "absent"]
    /\ firstErr = "none" /\ inOrder = TRUE /\ eager = None

(* The kind of an item: "None", "Ok" or the ParseError.                    *)
Kind(item) ==
    IF ~item.some THEN "None" ELSE IF item.val.ok THEN "Ok" ELSE item.val.err

IsErr(kind) == kind \in {"BadSyntax", "ReservedSyntax"}

Finished(kind) == kind \in {"absent", "None"}

(* An Option of a nested iterator, materialized: no items pulled yet.      *)
Shell(opt) == IF opt.some THEN Some(<< >>) ELSE None

(* A Filter as yielded: its target and level, the text of its bracket     *)
(* section (the SpanFilters it holds), and the span filters pulled so far. *)
Yielded(filter) ==
    [target |-> filter.target, section |-> filter.span,
     span |-> Shell(filter.span), level |-> filter.level]

(* A pull of the Filters iterator.                                         *)
FiltersPull ==
    /\ last.f # "None"
    /\ LET n    == FiltersNext(filtersDirectives)
           kind == Kind(n.res)
           ord  == inOrder /\ Finished(last.s) /\ Finished(last.d)
       IN  /\ filtersDirectives' = n.d
           /\ IF kind = "Ok"
              THEN LET filter == n.res.val.val
                   IN  /\ spanDirectives' = filter.span
                       /\ fieldDirectives' = None
                       /\ tree' = Append(tree, Yielded(filter))
                       /\ last' = [f |-> "Ok",
                                   s |-> IF filter.span.some THEN "fresh" ELSE "absent",
                                   d |-> "absent"]
              ELSE /\ last' = [last EXCEPT !.f = kind]
                   /\ UNCHANGED <<spanDirectives, fieldDirectives, tree>>
           /\ inOrder' = ord
           /\ firstErr' = IF firstErr = "none" /\ ord /\ IsErr(kind)
                          THEN kind ELSE firstErr
    /\ UNCHANGED <<text, written, eager, archiveVars, fieldVars, debugVars, filterVars>>

(* A pull of the SpanFilters iterator of the filter last yielded.          *)
SpanFiltersPull ==
    /\ spanDirectives.some
    /\ last.s # "None"
    /\ LET n    == SpanFiltersNext(spanDirectives.val)
           kind == Kind(n.res)
           ord  == inOrder /\ Finished(last.d)
       IN  /\ spanDirectives' = Some(n.d)
           /\ IF kind = "Ok"
              THEN LET filter == n.res.val.val
                       spans  == tree[Len(tree)].span.val
                   IN  /\ fieldDirectives' = filter.fields
                       /\ tree' = [tree EXCEPT ![Len(tree)].span =
                                     Some(Append(spans,
                                          SpanFilter(filter.name, Shell(filter.fields))))]
                       /\ last' = [last EXCEPT
                                     !.s = "Ok",
                                     !.d = IF filter.fields.some THEN "fresh" ELSE "absent"]
              ELSE /\ last' = [last EXCEPT !.s = kind]
                   /\ UNCHANGED <<fieldDirectives, tree>>
           /\ inOrder' = ord
           /\ firstErr' = IF firstErr = "none" /\ ord /\ IsErr(kind)
                          THEN kind ELSE firstErr
    /\ UNCHANGED <<text, written, filtersDirectives, eager,
                   archiveVars, fieldVars, debugVars, filterVars>>

(* A pull of the FieldFilters iterator of the span filter last yielded.    *)
FieldFiltersPull ==
    /\ fieldDirectives.some
    /\ last.d # "None"
    /\ LET n    == FieldFiltersNext(fieldDirectives.val)
           kind == Kind(n.res)
       IN  /\ fieldDirectives' = Some(n.d)
           /\ IF kind = "Ok"
              THEN LET spans  == tree[Len(tree)].span.val
                       fields == spans[Len(spans)].fields.val
                   IN  tree' = [tree EXCEPT ![Len(tree)].span =
                                  Some([spans EXCEPT ![Len(spans)].fields =
                                          Some(Append(fields, n.res.val.val))])]
              ELSE UNCHANGED tree
           /\ last' = [last EXCEPT !.d = kind]
           /\ firstErr' = IF firstErr = "none" /\ inOrder /\ IsErr(kind)
                          THEN kind ELSE firstErr
    /\ UNCHANGED <<text, written, filtersDirectives, spanDirectives, inOrder, eager,
                   archiveVars, fieldVars, debugVars, filterVars>>

(* eager::filters(text) is called.                                         *)
EagerCall ==
    /\ eager = None
    /\ eager' = Some(EagerFilters)
    /\ UNCHANGED <<text, written, filtersDirectives, spanDirectives, fieldDirectives,
                   tree, last, firstErr, inOrder,
                   archiveVars, fieldVars, debugVars, filterVars>>

NextParse ==
    \/ FiltersPull
    \/ SpanFiltersPull
    \/ FieldFiltersPull
    \/ EagerCall

SpecParse == InitParse /\ [][NextParse]_vars

---------------------------------------------------------------------------
(* Claims about the directive parser (SpecParse).                          *)

HasReserved == \E i \in DOMAIN text : text[i] \in {"\"", "/"}

\* C12: when the text holds a `"` or a `/` anywhere, the first pull of Filters
\* yields Err(ReservedSyntax), no filter is ever yielded, and eager::filters
\* returns Err(ReservedSyntax), whatever else is wrong with the text.
C12_ReservedFirst ==
    HasReserved =>
        /\ tree = << >>
        /\ last.f \in {"fresh", "ReservedSyntax", "None"}
        /\ last.f # "fresh" => firstErr = "ReservedSyntax"
        /\ eager.some => eager.val = Err("ReservedSyntax")

\* C12 witness: a text that starts with a stray `]` (a BadSyntax violation) and
\* holds a `/` later; the first pull and the eager call have both been made.
C12_Witness ==
    /\ Len(text) = 3 /\ text[1] = "]" /\ text[3] = "/"
    /\ last.f = "ReservedSyntax"
    /\ eager = Some(Err("ReservedSyntax"))

(* The items eager::filters returned, their slices read as bytes.          *)
OptBytes(opt) == IF opt.some THEN Some(Bytes(opt.val)) ELSE None

FieldRead(f) == [name |-> Bytes(f.name), value |-> OptBytes(f.value)]

FieldsRead(opt) ==
    IF opt.some THEN Some([i \in DOMAIN opt.val |-> FieldRead(opt.val[i])]) ELSE None

SpanRead(sp) == [name |-> Bytes(sp.name), fields |-> FieldsRead(sp.fields)]

SpansRead(opt) ==
    IF opt.some THEN Some([i \in DOMAIN opt.val |-> SpanRead(opt.val[i])]) ELSE None

FilterRead(f) ==
    [target |-> Bytes(f.target), span |-> SpansRead(f.span), level |-> OptBytes(f.level)]

FiltersRead(r) ==
    IF r.ok THEN Ok([i \in DOMAIN r.val |-> FilterRead(r.val[i])]) ELSE r

(* What the parts of a directive are expected to yield, as stated: one     *)
(* filter, one span filter when the bracket section is written, one field  *)
(* filter when the brace section is written.                               *)
StatedField(f) == [name |-> f.name, value |-> f.value]

StatedSpan(sp) ==
    [name |-> sp.name,
     fields |-> IF sp.field.some THEN Some(<<StatedField(sp.field.val)>>) ELSE None]

StatedFilter(p) ==
    [target |-> p.target,
     span |-> IF p.span.some THEN Some(<<StatedSpan(p.span.val)>>) ELSE None,
     level |-> p.level]

\* C13 as stated: every directive of a non-empty text yields one filter, every
\* written bracket section one span filter, every written brace section one
\* field filter.
C13_AsStated ==
    (written.some /\ text # << >> /\ eager.some) =>
        FiltersRead(eager.val) =
            Ok([i \in DOMAIN written.val |-> StatedFilter(written.val[i])])

(* The same, with an empty section yielding no item: `{}` no field filter, *)
(* `[]` no span filter, an empty last directive no filter.                 *)
ExpectedFields(f) == IF FieldText(f) = << >> THEN << >> ELSE <<StatedField(f)>>

ExpectedSpan(sp) ==
    [name |-> sp.name,
     fields |-> IF sp.field.some THEN Some(ExpectedFields(sp.field.val)) ELSE None]

ExpectedSpans(sp) == IF SpanText(sp) = << >> THEN << >> ELSE <<ExpectedSpan(sp)>>

ExpectedFilter(p) ==
    [target |-> p.target,
     span |-> IF p.span.some THEN Some(ExpectedSpans(p.span.val)) ELSE None,
     level |-> p.level]

ExpectedFilters(ps) ==
    LET n == IF DirectiveText(ps[Len(ps)]) = << >> THEN Len(ps) - 1 ELSE Len(ps)
    IN  [i \in 1 .. n |-> ExpectedFilter(ps[i])]

\* C13: eager::filters on T[S{F=V}]=L, for texts T, S, F, V, L free of
\* structural and reserved bytes, returns one filter with target T, one span S
\* with one field F of value V, and level L; an omitted part yields None; T may
\* be empty; comma-separated directives yield their filters in input order,
\* one per directive.  An empty section yields no item: `{}` no field filter,
\* `[]` no span filter, an empty last directive (the empty input, a trailing
\* comma) no filter.
C13_Directives ==
    (written.some /\ eager.some) =>
        FiltersRead(eager.val) = Ok(ExpectedFilters(written.val))

\* C13 witness: eager::filters has returned for a full directive followed by a
\* second directive with an empty target.
C13_Witness ==
    /\ eager.some /\ eager.val.ok
    /\ text = <<"a", "[", "a", "{", "a", "=", "b", "}", "]", "=", "a", ",", "=", "a">>
    /\ Len(eager.val.val) = 2
    /\ Len(eager.val.val[1].span.val) = 1
    /\ Len(eager.val.val[1].span.val[1].fields.val) = 1

(* Places of the text: text[i .. j] holds only plain bytes and commas, or  *)
(* only plain bytes.                                                       *)
Plain(i, j) == \A k \in i .. j : text[k] \in {"a", "b", ","}

Word(i, j) == \A k \in i .. j : text[k] \in {"a", "b"}

(* The text opens its first bracket section at i and a span name in it     *)
(* ends at j - 1.                                                          *)
SpanNameEndsAt(i, j) ==
    /\ i < j /\ text[i] = "[" /\ Plain(1, i - 1) /\ Plain(i + 1, j - 1)

(* A span name is immediately followed by a byte of C.                     *)
SpanNameFollowedBy(C) ==
    \E i, j \in DOMAIN text : SpanNameEndsAt(i, j) /\ text[j] \in C

(* A `{` after a span name has no `}` before the bracket section ends.     *)
BraceNotClosed ==
    \E i, j \in DOMAIN text :
        /\ SpanNameEndsAt(i, j) /\ text[j] = "{"
        /\ \A m \in j + 1 .. Len(text) :
              text[m] = "}" => \E n \in j + 1 .. m - 1 : text[n] = "]"

(* A field name is immediately followed by a byte of C.                    *)
FieldNameFollowedBy(C) ==
    \E i, j \in DOMAIN text :
        /\ SpanNameEndsAt(i, j) /\ text[j] = "{"
        /\ \E k \in j + 1 .. Len(text) : Plain(j + 1, k - 1) /\ text[k] \in C

(* A field value is immediately followed by a byte of C.                   *)
ValueFollowedBy(C) ==
    \E i, j \in DOMAIN text :
        /\ SpanNameEndsAt(i, j) /\ text[j] = "{"
        /\ \E k \in j + 1 .. Len(text) :
              /\ Plain(j + 1, k - 1) /\ text[k] = "="
              /\ \E l \in k + 1 .. Len(text) : Word(k + 1, l - 1) /\ text[l] \in C

(* The lazy parser was drained in eager order to the end.                  *)
Drained == last.f = "None" /\ inOrder

\* C14 as stated: each of the listed followers, `}` after a field name or a
\* field value among them, makes eager::filters return Err(BadSyntax).
C14_AsStated ==
    (/\ eager.some
     /\ \/ SpanNameFollowedBy({"[", "}", "="})
        \/ BraceNotClosed
        \/ FieldNameFollowedBy({"[", "]", "{", "}"})
        \/ ValueFollowedBy({"[", "]", "{", "}", "="}))
        => eager.val = Err("BadSyntax")

\* C14: in a text with no reserved byte, inside a bracket section, a span name
\* immediately followed by `[`, `}` or `=`, a `{` with no `}` before the end of
\* the section, a field name immediately followed by `[`, `]` or `{`, and a
\* field value immediately followed by `[`, `]`, `{` or `=` each make
\* eager::filters return Err(BadSyntax) and make the lazy parser, drained in
\* order, yield Err(BadSyntax) as its first error.
C14_BadBracket ==
    (/\ ~HasReserved
     /\ \/ SpanNameFollowedBy({"[", "}", "="})
        \/ BraceNotClosed
        \/ FieldNameFollowedBy({"[", "]", "{"})
        \/ ValueFollowedBy({"[", "]", "{", "="}))
        => /\ eager.some => eager.val = Err("BadSyntax")
           /\ firstErr \in {"none", "BadSyntax"}
           /\ Drained => firstErr = "BadSyntax"

\* C14 witness: `a[a{a=a=}]`, a field value followed by `=`: the Filters pull
\* yielded a filter, the SpanFilters pull a span filter, and the FieldFilters
\* pull Err(BadSyntax); eager::filters returned Err(BadSyntax).
C14_Witness ==
    /\ text = <<"a", "[", "a", "{", "a", "=", "a", "=", "}", "]">>
    /\ last = [f |-> "Ok", s |-> "Ok", d |-> "BadSyntax"]
    /\ firstErr = "BadSyntax"
    /\ eager = Some(Err("BadSyntax"))

(* What a pull that yields an Err, and a pull after an Err, leave behind.  *)
FiltersLatch ==
    FiltersPull =>
        /\ IsErr(last'.f) => IsEmpty(filtersDirectives')
        /\ IsErr(last.f) => last'.f = "None" /\ IsEmpty(filtersDirectives')

SpanFiltersLatch ==
    SpanFiltersPull =>
        /\ IsErr(last'.s) => IsEmpty(spanDirectives'.val)
        /\ IsErr(last.s) => last'.s = "None" /\ IsEmpty(spanDirectives'.val)

FieldFiltersLatch ==
    FieldFiltersPull =>
        /\ IsErr(last'.d) => IsEmpty(fieldDirectives'.val)
        /\ IsErr(last.d) => last'.d = "None" /\ IsEmpty(fieldDirectives'.val)

\* C15: a pull of Filters, SpanFilters or FieldFilters that yields an Err
\* leaves that iterator's remaining input empty, and the pull that follows an
\* Err on the same iterator yields None: an Err is the iterator's last item.
C15_ErrorLatch == [][FiltersLatch /\ SpanFiltersLatch /\ FieldFiltersLatch]_vars

\* C15 witness: on `a[a{a=a=}]` the FieldFilters iterator yielded Err(BadSyntax)
\* as its first item and None on the pull after it, with `=` never parsed.
C15_Witness ==
    /\ text = <<"a", "[", "a", "{", "a", "=", "a", "=", "}", "]">>
    /\ firstErr = "BadSyntax"
    /\ last = [f |-> "Ok", s |-> "Ok", d |-> "None"]
    /\ tree[1].span.val[1].fields = Some(<< >>)
    /\ IsEmpty(fieldDirectives.val)

(* The filters yielded, re-joined: target, `[`span text`]`, `=`level, with *)
(* `,` between filters.                                                    *)
FilterJoin(f) ==
    Bytes(f.target)
      \o (IF f.section.some THEN <<"[">> \o Bytes(f.section.val) \o <<"]">> ELSE << >>)
      \o (IF f.level.some THEN <<"=">> \o Bytes(f.level.val) ELSE << >>)

RECURSIVE Rejoin(_)
Rejoin(fs) ==
    IF fs = << >> THEN << >>
    ELSE IF Len(fs) = 1 THEN FilterJoin(fs[1])
    ELSE FilterJoin(fs[1]) \o <<",">> \o Rejoin(Tail(fs))

(* Every slice yielded so far lies inside the text.                        *)
Within(d) == 0 <= d.lo /\ d.lo <= d.hi /\ d.hi <= Len(text)

OptWithin(opt) == opt.some => Within(opt.val)

FieldsWithin(opt) ==
    opt.some => \A i \in DOMAIN opt.val :
                    Within(opt.val[i].name) /\ OptWithin(opt.val[i].value)

SpansWithin(opt) ==
    opt.some => \A i \in DOMAIN opt.val :
                    Within(opt.val[i].name) /\ FieldsWithin(opt.val[i].fields)

SlicesWithin ==
    \A i \in DOMAIN tree :
        /\ Within(tree[i].target) /\ OptWithin(tree[i].section)
        /\ OptWithin(tree[i].level) /\ SpansWithin(tree[i].span)

(* The text parses successfully and Filters was pulled to exhaustion.      *)
ParsedAndPulled == eager.some /\ eager.val.ok /\ last.f = "None"

EndsWithComma == text # << >> /\ text[Len(text)] = ","

\* C16 as stated: re-joining the filters of a text that parses successfully
\* reproduces the text exactly.
C16_AsStated == ParsedAndPulled => Rejoin(tree) = text

\* C16: for a text that parses successfully, every yielded target, span text,
\* name, value and level is a slice of the text, and re-joining the filters in
\* order as target, `[`span text`]`, `=`level, separated by `,`, reproduces the
\* text, except that the `,` a text ends with is not reproduced.
C16_RoundTrip ==
    /\ SlicesWithin
    /\ ParsedAndPulled =>
          IF EndsWithComma THEN Rejoin(tree) \o <<",">> = text
          ELSE Rejoin(tree) = text

\* C16 witness: `a[a{a=b}]=a,=a` parsed successfully, both filters pulled and
\* the span filter and field filter of the second pull order left unpulled.
C16_Witness ==
    /\ ParsedAndPulled
    /\ text = <<"a", "[", "a", "{", "a", "=", "b", "}", "]", "=", "a", ",", "=", "a">>
    /\ Len(tree) = 2
    /\ Bytes(tree[1].section.val) = <<"a", "{", "a", "=", "b", "}">>
    /\ Rejoin(tree) = text

(* The lazy items yielded so far, as the vectors eager::filters builds.    *)
Materialized(fs) ==
    [i \in DOMAIN fs |-> Filter(fs[i].target, fs[i].span, fs[i].level)]

\* C17: eager::filters returns Ok(v) exactly when the lazy Filters, with every
\* nested SpanFilters and FieldFilters, pulled to exhaustion yields no Err, and
\* then v is the lazy items materialized in order at all three levels;
\* otherwise it returns the first Err met when each filter's spans and fields
\* are drained before the next filter is pulled.
C17_EagerIsLazy ==
    eager.some =>
        /\ firstErr # "none" => eager.val = Err(firstErr)
        /\ (Drained /\ firstErr = "none") => eager.val = Ok(Materialized(tree))
        /\ Drained => (eager.val.ok <=> firstErr = "none")

\* C17 witness: two directives with a span and a field each were drained in
\* order without an Err and eager::filters returned the same two filters.
C17_Witness ==
    /\ Drained /\ firstErr = "none"
    /\ Len(tree) = 2
    /\ \A i \in 1 .. 2 :
          /\ tree[i].span.some /\ Len(tree[i].span.val) = 1
          /\ tree[i].span.val[1].fields.some
          /\ Len(tree[i].span.val[1].fields.val) = 1
    /\ tree[1].level # tree[2].level
    /\ eager = Some(Ok(Materialized(tree)))

---------------------------------------------------------------------------
(* tracing-egui/src/filter.rs: texts are sequences of one-character        *)
(* strings.                                                                *)

(* haystack.matches(needle).any(|_| true)                                  *)
Matches(hay, needle) ==
    \E i \in 0 .. Len(hay) - Len(needle) : SubSeq(hay, i + 1, i + Len(needle)) = needle

(* LevelFilter in the order OFF < ERROR < WARN < INFO < DEBUG < TRACE; a   *)
(* Level or LevelFilter is its place in that order, OFF being 0.           *)
LevelNames ==
    << <<"o", "f", "f">>, <<"e", "r", "r", "o", "r">>, <<"w", "a", "r", "n">>,
       <<"i", "n", "f", "o">>, <<"d", "e", "b", "u", "g">>, <<"t", "r", "a", "c", "e">> >>

OFF == 0

TRACE == 5

LevelName(level) == LevelNames[level + 1]

Levels == OFF + 1 .. TRACE

Digits == <<"0", "1", "2", "3", "4", "5", "6", "7", "8", "9">>

DigitValue(c) == (CHOOSE i \in DOMAIN Digits : Digits[i] = c) - 1

IsDigits(s) == s # << >> /\ \A i \in DOMAIN s : s[i] \in Range(Digits)

(* s.parse::<usize>() of a text of digits                                  *)
RECURSIVE ParseUsize(_)
ParseUsize(s) ==
    IF Len(s) = 1 THEN DigitValue(s[1])
    ELSE ParseUsize(SubSeq(s, 1, Len(s) - 1)) * Len(Digits) + DigitValue(s[Len(s)])

(* eq_ignore_ascii_case, for the upper-case letters of the level names.    *)
ToLower ==
    ("A" :> "a") @@ ("B" :> "b") @@ ("C" :> "c") @@ ("D" :> "d") @@ ("E" :> "e")
      @@ ("F" :> "f") @@ ("G" :> "g") @@ ("I" :> "i") @@ ("N" :> "n") @@ ("O" :> "o")
      @@ ("R" :> "r") @@ ("T" :> "t") @@ ("U" :> "u") @@ ("W" :> "w")

Lower(c) == IF c \in DOMAIN ToLower THEN ToLower[c] ELSE c

LowerCase(s) == [i \in DOMAIN s |-> Lower(s[i])]

NamedLevel(s) ==
    IF \E i \in DOMAIN LevelNames : LevelNames[i] = LowerCase(s)
    THEN Some((CHOOSE i \in DOMAIN LevelNames : LevelNames[i] = LowerCase(s)) - 1)
    ELSE None

(* <LevelFilter as FromStr>::from_str: a number 0..5 or a level name or off *)
LevelFilterFromStr(s) ==
    IF IsDigits(s) /\ ParseUsize(s) <= TRACE THEN Some(ParseUsize(s))
    ELSE NamedLevel(s)

(* <Level as FromStr>::from_str: a number 1..5 or a level name             *)
LevelFromStr(s) ==
    IF IsDigits(s) /\ ParseUsize(s) \in Levels THEN Some(ParseUsize(s))
    ELSE IF NamedLevel(s) = Some(OFF) THEN None
    ELSE NamedLevel(s)

(* The character classes of the three regular expressions.                 *)
Letters ==
    {"a", "b", "c", "d", "e", "f", "g", "i", "k", "n", "o", "r", "s", "t", "u",
     "w", "x"} \cup DOMAIN ToLower

InTarget(c) == c \in Letters \cup Range(Digits) \cup {"_", ":", "-"}

(* A greedy run of a character class from offset p: the offset it ends at. *)
RunEnd(s, p, In(_)) ==
    Least({q \in p .. Len(s) : q = Len(s) \/ ~In(s[q + 1])})

(* DIRECTIVE_RE.captures(s): the groups target, span and level, or None.   *)
Caps(s, t, span, level) ==
    [target |-> IF t = 0 THEN None ELSE Some(SubSeq(s, 1, t)),
     span |-> span, level |-> level]

IsLevelToken(l) ==
    \/ LowerCase(l) \in Range(LevelNames)
    \/ Len(l) = 1 /\ IsDigits(l) /\ ParseUsize(l) <= TRACE

LevelCaps(s, t, span, p) ==
    IF p = Len(s) THEN Some(Caps(s, t, span, None))
    ELSE IF s[p + 1] # "=" THEN None
    ELSE IF p + 1 = Len(s) THEN Some(Caps(s, t, span, None))
    ELSE IF IsLevelToken(SubSeq(s, p + 2, Len(s)))
         THEN Some(Caps(s, t, span, Some(SubSeq(s, p + 2, Len(s)))))
    ELSE None

ClosedSpan(s, t, e) ==
    IF e = Len(s) THEN None
    ELSE LevelCaps(s, t, Some(SubSeq(s, t + 2, e)), e + 1)

SpanCaps(s, t) ==
    IF t < Len(s) /\ s[t + 1] = "["
    THEN ClosedSpan(s, t, RunEnd(s, t + 1, LAMBDA c : c # "]"))
    ELSE LevelCaps(s, t, None, t)

DirectiveCaps(s) == SpanCaps(s, RunEnd(s, 0, InTarget))

(* SPAN_PART_RE.captures(span): unanchored, it always matches at offset 0. *)
FieldsCaps(sp, n, e) ==
    IF e = Len(sp) THEN None ELSE Some(SubSeq(sp, n + 2, e))

SpanPartAt(sp, n) ==
    [name |-> IF n = 0 THEN None ELSE Some(SubSeq(sp, 1, n)),
     fields |-> IF n < Len(sp) /\ sp[n + 1] = "{"
                THEN FieldsCaps(sp, n, RunEnd(sp, n + 1, LAMBDA c : c # "}"))
                ELSE None]

SpanPartCaps(sp) == SpanPartAt(sp, RunEnd(sp, 0, LAMBDA c : c \notin {"]", "{"}))

(* FIELD_PART_RE.captures(fields): the leftmost offset a name starts at.   *)
FieldDirective(name, value) == [name |-> name, value |-> value]

ValueCaps(fs, m) ==
    IF m + 1 < Len(fs) /\ fs[m + 2] # ","
    THEN Some(SubSeq(fs, m + 2, RunEnd(fs, m + 1, LAMBDA c : c # ",")))
    ELSE None

FieldNameCaps(fs, start, m) ==
    Ok(Some(FieldDirective(SubSeq(fs, start + 1, m), ValueCaps(fs, m))))

FieldPartAt(fs, start) ==
    IF start = Len(fs) THEN Err("()")
    ELSE FieldNameCaps(fs, start, RunEnd(fs, start, LAMBDA c : c # "="))

FieldPartCaps(fs) == FieldPartAt(fs, RunEnd(fs, 0, LAMBDA c : c = "="))

(* <Directive as FromStr>::from_str                                        *)
Directive(target, span, field, level) ==
    [target |-> target, span |-> span, field |-> field, level |-> level]

TargetOf(cap) ==
    IF cap.some /\ LevelFromStr(cap.val).some THEN None ELSE cap

(* Mutant of LevelOf: a directive without a level gets ERROR.              *)
LevelOfError(cap) ==
    IF cap.some THEN LevelFilterFromStr(cap.val) ELSE Some(OFF + 1)

LevelOf(cap) ==
    IF cap.some THEN LevelFilterFromStr(cap.val) ELSE Some(TRACE)

WithLevel(target, span, field, level) ==
    IF ~level.some THEN Err("()") ELSE Ok(Directive(target, span, field, level.val))

WithField(target, name, field, level) ==
    IF ~field.ok THEN field ELSE WithLevel(target, name, field.val, level)

WithSpanPart(target, part, level) ==
    WithField(target, part.name,
              IF part.fields.some THEN FieldPartCaps(part.fields.val) ELSE Ok(None),
              level)

FromCaps(caps) ==
    IF caps.span.some
    THEN WithSpanPart(TargetOf(caps.target), SpanPartCaps(caps.span.val), LevelOf(caps.level))
    ELSE WithLevel(TargetOf(caps.target), None, None, LevelOf(caps.level))

OrErr(caps) == IF ~caps.some THEN Err("()") ELSE FromCaps(caps.val)

DirectiveFromStr(s) == OrErr(DirectiveCaps(s))

(* s.split(',')                                                            *)
RECURSIVE Split(_)
Split(s) ==
    IF \A i \in DOMAIN s : s[i] # "," THEN <<s>>
    ELSE LET k == Least({i \in DOMAIN s : s[i] = ","})
         IN  <<SubSeq(s, 1, k - 1)>> \o Split(SubSeq(s, k + 1, Len(s)))

(* .map(|s| s.parse()).collect::<Result<_, _>>()                           *)
RECURSIVE ParseAll(_)
ParseAll(parts) ==
    IF parts = << >> THEN Ok(<< >>)
    ELSE Prepend(DirectiveFromStr(Head(parts)), ParseAll(Tail(parts)))

(* <EventFilter as FromStr>::from_str                                      *)
EventFilterFromStr(s) == IF s = << >> THEN Ok(<< >>) ELSE ParseAll(Split(s))

(* ---- EventFilter::includes ----                                         *)

(* format!("{:?}", field) of what with_debug hands to the closure.         *)
RECURSIVE Decimal(_)
Decimal(n) ==
    IF n < Len(Digits) THEN <<Digits[n + 1]>>
    ELSE Decimal(n \div Len(Digits)) \o <<Digits[(n % Len(Digits)) + 1]>>

Render(leaf) ==
    CASE leaf.tag = "I64" -> Decimal(leaf.i)
      [] leaf.tag = "U64" -> Decimal(leaf.u)
      [] leaf.tag = "Bool" -> IF leaf.b THEN <<"t", "r", "u", "e">>
                              ELSE <<"f", "a", "l", "s", "e">>
      [] leaf.tag = "Str" -> <<"\"">> \o leaf.s \o <<"\"">>
      [] leaf.tag = "Error" -> leaf.e
      [] leaf.tag = "Debug" -> leaf.d

(* value.with_debug(..) over a field recorded once or several times.       *)
DebugTexts(value) ==
    IF IsMultiple(value) THEN {Render(value.xs[i]) : i \in DOMAIN value.xs}
    ELSE {Render(value)}

(* event.fields().chain(successors(event.span(), parent).flat_map(fields)) *)
(* Mutant of FieldsInScope: the fields of the spans are not chained.       *)
FieldsOfEvent(e) == Range(e.fields)

FieldsInScope(e) ==
    Range(e.fields) \cup UNION {Range(e.span[i].fields) : i \in DOMAIN e.span}

TargetApplies(d, e) == d.target.some => Matches(e.target, d.target.val)

SpanApplies(d, e) ==
    d.span.some => \E i \in DOMAIN e.span : Matches(e.span[i].name, d.span.val)

FieldApplies(d, e) ==
    d.field.some =>
        \E f \in FieldsInScope(e) :
            /\ Matches(f.name, d.field.val.name)
            /\ d.field.val.value.some =>
                  \E txt \in DebugTexts(f.value) : Matches(txt, d.field.val.value.val)

this_directive_applies(d, e) ==
    TargetApplies(d, e) /\ SpanApplies(d, e) /\ FieldApplies(d, e)

(* Mutant of Decision: a directive that applies can only admit.            *)
DecisionSticky(d, e, inc) ==
    IF this_directive_applies(d, e) THEN inc \/ e.level <= d.level ELSE inc

(* if this_directive_applies { included = level <= directive.level }       *)
Decision(d, e, inc) ==
    IF this_directive_applies(d, e) THEN e.level <= d.level ELSE inc

---------------------------------------------------------------------------
(* SpecFilter: the inputs.                                                 *)

A == <<"a">>

K == <<"k">>

X == <<"x">>

(* Target texts: plain ones, and ones that spell a level.                  *)
TargetTexts ==
    {A, <<"b">>, <<"a", "b">>, <<"3">>, <<"i", "n", "f", "o">>, <<"W", "A", "R", "N">>}

(* Level tokens: the names, one in mixed case, and the digits 0 to 5.      *)
LevelTokens ==
    Range(LevelNames) \cup {<<"W", "a", "r", "n">>}
      \cup {<<Digits[i]>> : i \in OFF + 1 .. TRACE + 1}

Eq(l) == <<"=">> \o l

TargetLevelTexts ==
    {t \o Eq(l) : t \in TargetTexts, l \in LevelTokens}
      \cup TargetTexts \cup {Eq(l) : l \in {<< >>, LevelName(TRACE - 1)}}

SpanParts ==
    { <<"[", "]">>, <<"[", "s", "]">>, <<"[", "t", "]">>,
      <<"[", "s", "{", "k", "}", "]">>, <<"[", "{", "k", "=", "x", "}", "]">>,
      <<"[", "{", "k", "=", "1", "}", "]">>,
      <<"[", "t", "{", "k", "=", "1", "}", "]">>,
      <<"[", "s", "{", "k", "=", "}", "]">> }

ClauseTexts ==
    {t \o sp \o l : t \in {<< >>, A}, sp \in SpanParts,
                    l \in {<< >>} \cup {Eq(LevelName(i)) : i \in {OFF, OFF + 2, TRACE}}}

ListParts ==
    { A, <<"b">> \o Eq(LevelName(OFF)), Eq(LevelName(OFF + 1)),
      <<"[", "s", "]">> \o Eq(LevelName(TRACE - 2)),
      A \o <<"[", "{", "k", "=", "x", "}", "]">> \o Eq(LevelName(TRACE - 1)) }

RECURSIVE Joined(_)
Joined(parts) ==
    IF Len(parts) = 1 THEN parts[1]
    ELSE parts[1] \o <<",">> \o Joined(Tail(parts))

ListTexts ==
    {Joined(ps) : ps \in UNION {[1 .. k -> ListParts] : k \in 2 .. MaxFilterDirectives}}

(* Texts no directive is parsed from.                                      *)
BadFilterTexts ==
    { A \o <<"=", "i", "n", "f">>, A \o <<"[", "s">>, <<"[", "{", "=", "}", "]">>,
      A \o <<"=", "7">>, A \o <<"]">>, A \o <<",", "/">>, <<"[", "s", "{", "}", "]">> }

FilterTexts ==
    {<< >>} \cup TargetLevelTexts \cup ClauseTexts \cup ListTexts \cup BadFilterTexts

(* Archived events: metadata target and level, the event's own fields, and *)
(* the spans it is in, innermost first, with their names and fields.       *)
FieldOf(name, value) == [name |-> name, value |-> value]

EventTargets == {A, <<"a", "b">>, <<"b", "3">>, <<"i", "n", "f", "o">>}

EventFields ==
    { << >>, <<FieldOf(K, Str(X))>>,
      <<FieldOf(K, Multiple(<<I64(TRACE), Str(X)>>))>> }

EventSpans ==
    { << >>, <<[name |-> <<"s">>, fields |-> << >>]>>,
      <<[name |-> <<"t">>, fields |-> <<FieldOf(K, I64(OFF + 1))>>],
        [name |-> <<"s">>, fields |-> << >>]>> }

Events ==
    [target : EventTargets, level : Levels, fields : EventFields, span : EventSpans]

---------------------------------------------------------------------------
(* SpecFilter: a filter text is parsed and includes() is run on an event.  *)

InitFilter ==
    /\ IdleArchive /\ IdleFields /\ IdleDebug /\ IdleParse
    /\ filterText \in FilterTexts
    /\ \E e \in Events : event = Some(e)
    /\ directives = None
    /\ cursor = 0 /\ included = FALSE /\ result = None

(* filter_text.parse::<EventFilter>()                                      *)
FromStr ==
    /\ directives = None
    /\ directives' = EventFilterFromStr(filterText)
    /\ UNCHANGED <<filterText, event, cursor, included, result,
                   archiveVars, fieldVars, debugVars, parseVars>>

(* Widget::ui: match state.filters.parse() { .. Err(_err) => { ..          *)
(* EventFilter::default() } }: the filter shown with is the empty one.     *)
WidgetFallback ==
    /\ directives # None /\ ~directives.ok
    /\ directives' = Ok(<< >>)
    /\ UNCHANGED <<filterText, event, cursor, included, result,
                   archiveVars, fieldVars, debugVars, parseVars>>

(* Mutant of IncludesEmpty: the empty filter admits nothing.               *)
IncludesEmptyRejects ==
    /\ directives # None /\ directives.ok /\ directives.val = << >>
    /\ result = None
    /\ result' = Some(FALSE)
    /\ UNCHANGED <<filterText, directives, event, cursor, included,
                   archiveVars, fieldVars, debugVars, parseVars>>

(* includes(): the empty filter admits everything.                         *)
IncludesEmpty ==
    /\ directives # None /\ directives.ok /\ directives.val = << >>
    /\ result = None
    /\ result' = Some(TRUE)
    /\ UNCHANGED <<filterText, directives, event, cursor, included,
                   archiveVars, fieldVars, debugVars, parseVars>>

(* includes(): let mut included = false; and the loop is entered.          *)
IncludesEnter ==
    /\ directives # None /\ directives.ok /\ directives.val # << >>
    /\ result = None /\ cursor = 0
    /\ cursor' = 1
    /\ included' = FALSE
    /\ UNCHANGED <<filterText, directives, event, result,
                   archiveVars, fieldVars, debugVars, parseVars>>

(* includes(): one turn of `for directive in &self.directives`.            *)
IncludesDirective ==
    /\ directives # None /\ directives.ok
    /\ result = None /\ cursor \in DOMAIN directives.val
    /\ included' = Decision(directives.val[cursor], event.val, included)
    /\ cursor' = cursor + 1
    /\ UNCHANGED <<filterText, directives, event, result,
                   archiveVars, fieldVars, debugVars, parseVars>>

(* includes(): the loop is over and `included` is returned.                *)
IncludesReturn ==
    /\ directives # None /\ directives.ok
    /\ result = None /\ cursor = Len(directives.val) + 1
    /\ result' = Some(included)
    /\ UNCHANGED <<filterText, directives, event, cursor, included,
                   archiveVars, fieldVars, debugVars, parseVars>>

NextFilter ==
    \/ FromStr
    \/ WidgetFallback
    \/ IncludesEmpty
    \/ IncludesEnter
    \/ IncludesDirective
    \/ IncludesReturn

SpecFilter == InitFilter /\ [][NextFilter]_vars

---------------------------------------------------------------------------
(* Claims about the event filter (SpecFilter).                             *)

Parsed == directives # None /\ directives.ok

(* The places in the list of the directives whose present clauses all      *)
(* apply to the event.                                                     *)
AppliesAt ==
    {i \in DOMAIN directives.val : this_directive_applies(directives.val[i], event.val)}

LastApplying == CHOOSE i \in AppliesAt : \A j \in AppliesAt : j <= i

\* C18: for a non-empty directive list, includes returns (event level <=
\* d.level) for the last directive d in list order whose present clauses all
\* apply to the event, false when no directive applies, and false when that
\* last applying directive has level off.
C18_LastApplying ==
    (Parsed /\ directives.val # << >> /\ result.some) =>
        /\ AppliesAt = {} => result.val = FALSE
        /\ AppliesAt # {} =>
              /\ result.val = (event.val.level <= directives.val[LastApplying].level)
              /\ directives.val[LastApplying].level = OFF => result.val = FALSE

\* C18 witness: includes returned false for a list of two directives that both
\* apply, the first of which alone admits the event and the last of which
\* rejects it.
C18_Witness ==
    /\ Parsed /\ Len(directives.val) = 2
    /\ AppliesAt = {1, 2}
    /\ event.val.level <= directives.val[1].level
    /\ ~(event.val.level <= directives.val[2].level)
    /\ result = Some(FALSE)

\* C19 as stated: for the single directive parsed from `T=L`, for every target
\* text T and level token L, the event is admitted iff its metadata target
\* contains T and its level is no less severe than L.
C19_AsStated ==
    \A t \in TargetTexts, l \in LevelTokens :
        (filterText = t \o Eq(l) /\ result.some) =>
            result.val = (/\ Matches(event.val.target, t)
                          /\ event.val.level <= LevelFilterFromStr(l).val)

(* A single directive written without a level, and the text of the same    *)
(* directive with level trace.                                             *)
NoLevelTexts == TargetTexts \cup {t \o sp : t \in {<< >>, A}, sp \in SpanParts}

WithTrace(s) == s \o Eq(LevelName(TRACE))

EmptyOrUnparsable == filterText = << >> \/ ~EventFilterFromStr(filterText).ok

\* C21: an empty directive set admits every event; the directive set the
\* widget filters with is empty for the empty filter text and when the filter
\* text fails to parse, so with such a text no event is excluded.
C21_AdmitAll ==
    /\ (Parsed /\ directives.val = << >> /\ result.some) => result.val = TRUE
    /\ (EmptyOrUnparsable /\ Parsed) => directives.val = << >>
    /\ (EmptyOrUnparsable /\ result.some) => result.val = TRUE

\* C21 witness: the text `a=inf` failed to parse, the widget fell back to the
\* empty filter, and includes admitted an event of level trace whose target
\* does not hold `a`.
C21_Witness ==
    /\ filterText = <<"a", "=", "i", "n", "f">>
    /\ directives = Ok(<< >>)
    /\ event.val.target = <<"b", "3">> /\ event.val.level = TRACE
    /\ result = Some(TRUE)

---------------------------------------------------------------------------
(* Claims about publishing while the archive mutex is held (SpecHeld).     *)

(* The calls whose callback was handed the vector.                         *)
PastDrain == {k \in DOMAIN calls : calls[k].state \in {"cb", "returned", "panicked"}}

(* Event i was published by another thread after call k got the mutex and  *)
(* is in the vector handed to the callback of call k.                      *)
HandedThoughLate(k, i) ==
    /\ i \in Range(calls[k].handed)
    /\ i > calls[k].locked
    /\ origin[i][1] # calls[k].thread

\* C22 as stated: no event published by another thread while a with_events
\* call holds the mutex is in the vector handed to that call's callback.
C22_AsStated == \A k \in PastDrain : \A i \in DOMAIN events : ~HandedThoughLate(k, i)

\* C22: no published event is lost; the vector handed to a callback holds, in
\* publication order, every event published before the call got the mutex and
\* the events published while its draining loop ran, and none published after
\* the loop found the queue empty; an event published while the callback runs
\* stays in the queue and is in the vector of the next call, which gets the
\* mutex after it was published.
C22_VisibleNextCall ==
    /\ \A i \in DOMAIN events : Occurrences(log \o queue, i) = 1
    /\ \A k \in PastDrain :
          /\ calls[k].handed = [j \in 1 .. Len(calls[k].handed) |-> j]
          /\ Len(calls[k].handed) >= calls[k].locked
    /\ \A k \in DOMAIN calls :
          calls[k].state = "cb" =>
              \A i \in Len(calls[k].handed) + 1 .. Len(events) : i \in Range(queue)

\* C22 witness: while the callback of the first call runs on an empty vector
\* and holds the mutex, a producer has published an event, which is in the
\* queue and not in that vector.
C22_Witness ==
    /\ Len(calls) = 1 /\ calls[1].state = "cb" /\ calls[1].handed = << >>
    /\ Len(events) = 1 /\ origin[1][1] = "p1"
    /\ queue = <<1>> /\ log = << >>
    /\ mutex = calls[1].thread

(* The leaves contained in the fields fs, left to right and depth first,   *)
(* as the closure of with_debug would be handed them.                      *)
RECURSIVE LeavesOf(_)
LeavesOf(fs) ==
    IF fs = << >> THEN << >>
    ELSE (IF IsMultiple(Head(fs)) THEN LeavesOf(Head(fs).xs)
          ELSE <<Rendered(Head(fs))>>) \o LeavesOf(Tail(fs))

(* A Multiple that holds a Multiple followed by another child.             *)
MultipleBeforeLast(f) ==
    /\ IsMultiple(f)
    /\ \E i \in 1 .. Len(f.xs) - 1 : IsMultiple(f.xs[i])

\* C23 as stated: for every Field, a Multiple holding a Multiple at any
\* position included, iterating with_debug terminates (next() never recurses
\* without end) and hands the closure each contained leaf exactly once, left
\* to right and depth first.
C23_AsStated ==
    /\ dbgState # "overflow"
    /\ IsPrefix(dbgOut, LeavesOf(<<dbgField>>))
    /\ dbgState = "done" => dbgOut = LeavesOf(<<dbgField>>)

\* C23, the part that holds: a Field with no Multiple in front of another
\* child of a Multiple is iterated to its end with each leaf handed over once
\* and in order.
C23_LastPositionOnly ==
    ~MultipleBeforeLast(dbgField) => C23_AsStated

\* C23 witness: next() on Multiple([Multiple([1]), "x"]) has pushed the inner
\* slice again and again without advancing self.0, handing the closure nothing.
C23_Witness ==
    /\ dbgState = "overflow"
    /\ dbgField = Multiple(<<Multiple(<<I64(1)>>), Str("x")>>)
    /\ dbgOut = << >>
    /\ dbgCur = dbgField.xs
    /\ Len(dbgStack) >= 2 /\ \A i \in DOMAIN dbgStack : dbgStack[i] = <<I64(1)>>

---------------------------------------------------------------------------
(* layer.rs on_record reached for a span with no Arc<Span> in its          *)
(* extension storage.  The storage is shared by every layer of the         *)
(* subscriber (span.extensions_mut()), so the slot of an open span can be  *)
(* emptied from outside this crate.                                        *)

(* Another layer of the subscriber takes the Arc<Span> out of the          *)
(* extension storage of the open span h: ext.get_mut::<Arc<Span>>() is     *)
(* None from then on.                                                      *)
ExtensionRemoved(h) ==
    /\ h \in OpenSpans
    /\ host[h].ext # 0
    /\ host' = [host EXCEPT ![h].ext = 0]
    /\ UNCHANGED <<queue, log, mutex, frames, events, recs, origin, calls,
                   fieldVars, debugVars, parseVars, filterVars>>

InitUnseen == InitCapture

NextUnseen ==
    \/ \E p \in {0} \cup DOMAIN host, nvs \in SpanAttributes : NewSpan(p, nvs)
    \/ \E h \in DOMAIN host, nvs \in RecordValues : OnRecord(h, nvs)
    \/ \E h \in DOMAIN host : CloseSpan(h)
    \/ \E h \in DOMAIN host : ExtensionRemoved(h)
    \/ \E now \in Times, nvs \in EventValues, h \in OpenSpans :
           OnEventBuild("p1", EventMeta, now, nvs, h)
    \/ Push("p1")
    \/ Snapshot("c2")

SpecUnseen == InitUnseen /\ [][NextUnseen]_vars

\* C24 as stated: on_record for a span whose extension storage holds no
\* archived span record installs no record for it (the slot of an open span
\* that is empty stays empty, and no record is built).
C24_AsStated ==
    [][\A h \in DOMAIN host :
          (host[h].open /\ host[h].ext = 0 /\ host'[h].open) =>
              host'[h].ext = 0 /\ recs' = recs]_vars

\* C24 witness: on_record has run for an open span whose slot had been
\* emptied; a record built after the span's first one, holding only the
\* newly recorded values, is in the slot.
C24_Witness ==
    \E h \in DOMAIN host :
        /\ host[h].open /\ host[h].ext > host[h].first
        /\ recs[host[h].first].fields # << >>
        /\ recs[host[h].ext].fields # recs[host[h].first].fields
        /\ StrongCount(host[h].first) = 0

---------------------------------------------------------------------------
(* The top level of the directive parser, read off the text.               *)

(* The place of the first byte of C at or after place k of the text, or    *)
(* the place after the last byte.  (Here and below a one-element set fixes *)
(* the value of an argument before the recursion uses it.)                 *)
RECURSIVE FirstOf(_, _)
FirstOf(C, k) ==
    CHOOSE found \in {IF n > Len(text) THEN Len(text) + 1
                      ELSE IF text[n] \in C THEN n
                      ELSE FirstOf(C, n + 1) : n \in {k}} : TRUE

(* The byte at place k, "%" after the last byte.                           *)
ByteOrEnd(k) == IF k \in DOMAIN text THEN text[k] ELSE "%"

(* The place that follows the target of the directive d starts with.      *)
TargetEnd(d) == FirstOf(Syntax, d.lo + 1)

(* The place of the `]` that closes the `[` at place k.                    *)
Closing(k) == FirstOf({"]"}, k + 1)

(* The place that follows the target and the bracket section, if any.      *)
SectionEnd(d) ==
    IF ByteOrEnd(TargetEnd(d)) = "[" THEN Closing(TargetEnd(d)) + 1
    ELSE TargetEnd(d)

(* The place that follows the level text, if a `=` opens one.              *)
LevelEnd(d) ==
    IF ByteOrEnd(SectionEnd(d)) = "=" THEN FirstOf(Syntax, SectionEnd(d) + 1)
    ELSE SectionEnd(d)

(* The four cases of BadSyntax at the top level.                           *)
TargetBadlyFollowed(d) == ByteOrEnd(TargetEnd(d)) \in {"]", "{", "}"}

BracketNotClosed(d) ==
    ByteOrEnd(TargetEnd(d)) = "[" /\ Closing(TargetEnd(d)) > Len(text)

ClosingBadlyFollowed(d) ==
    /\ ByteOrEnd(TargetEnd(d)) = "[" /\ Closing(TargetEnd(d)) <= Len(text)
    /\ ByteOrEnd(SectionEnd(d)) \notin {"=", ",", "%"}

LevelBadlyFollowed(d) ==
    /\ ~TargetBadlyFollowed(d) /\ ~BracketNotClosed(d)
    /\ ByteOrEnd(SectionEnd(d)) = "="
    /\ ByteOrEnd(LevelEnd(d)) \in {"[", "]", "{", "}", "="}

BadTopLevel(d) ==
    \/ TargetBadlyFollowed(d) \/ BracketNotClosed(d)
    \/ ClosingBadlyFollowed(d) \/ LevelBadlyFollowed(d)

(* What a pull of Filters on a remaining input with a directive to parse   *)
(* (not empty, no reserved byte) yields and leaves.                        *)
TopLevelRule ==
    (FiltersPull /\ ~IsEmpty(filtersDirectives) /\ ~Reserved(filtersDirectives)) =>
        /\ last'.f = IF BadTopLevel(filtersDirectives) THEN "BadSyntax" ELSE "Ok"
        /\ last'.f = "Ok" =>
              /\ ByteOrEnd(LevelEnd(filtersDirectives)) \in {",", "%"}
              /\ filtersDirectives' =
                    IF ByteOrEnd(LevelEnd(filtersDirectives)) = ","
                    THEN Slice(LevelEnd(filtersDirectives), Len(text))
                    ELSE Slice(Len(text), Len(text))

RECURSIVE CleanFrom(_)
CleanFrom(lo) ==
    \A n \in {lo} :
        \/ n >= Len(text)
        \/ /\ ~BadTopLevel(Slice(n, Len(text)))
           /\ \A next \in {LevelEnd(Slice(n, Len(text)))} :
                  ByteOrEnd(next) = "," => CleanFrom(next)

(* The number of directives of such a text.                                *)
RECURSIVE DirectivesFrom(_)
DirectivesFrom(lo) ==
    CHOOSE count \in
        {IF n >= Len(text) THEN 0
         ELSE IF ByteOrEnd(LevelEnd(Slice(n, Len(text)))) = ","
              THEN 1 + DirectivesFrom(LevelEnd(Slice(n, Len(text))))
              ELSE 1 : n \in {lo}} : TRUE

(* The Filters iterator of a text that is well formed at the top level     *)
(* yields no Err and, pulled to its end, one filter per directive (what a  *)
(* pull of Filters leaves; no other step changes last.f or Len(tree)).     *)
Deferred ==
    (~HasReserved /\ CleanFrom(0)) =>
        /\ ~IsErr(last.f)
        /\ firstErr \in {"none", "BadSyntax"}
        /\ last.f = "None" => Len(tree) = DirectivesFrom(0)

(* A pull of a nested iterator leaves the remaining input of the iterators *)
(* above it as it was, and an Err it yields clears its own input only.     *)
ParentKept ==
    /\ SpanFiltersPull =>
          /\ filtersDirectives' = filtersDirectives
          /\ IsErr(last'.s) => IsEmpty(spanDirectives'.val)
    /\ FieldFiltersPull =>
          /\ filtersDirectives' = filtersDirectives
          /\ spanDirectives' = spanDirectives
          /\ IsErr(last'.d) => IsEmpty(fieldDirectives'.val)

\* C26: on a text with no reserved byte whose directives are well formed at
\* the top level, the lazy Filters iterator yields Ok(Filter) for every
\* directive, one per directive, whatever grammar violation its [...] text
\* holds (as in `[a[a]`); the Err(BadSyntax) is yielded only by a pull of that
\* filter's SpanFilters or of a span's FieldFilters, and such a pull leaves
\* the remaining input of the parent iterators unchanged.
C26_DeferredValidation == [][(FiltersPull => Deferred') /\ ParentKept]_vars

\* C26 witness: on `a[a[a],a` the first pull of Filters yielded a filter, the
\* pull of its SpanFilters yielded Err(BadSyntax) for `a[a`, and the next pull
\* of Filters yielded the second directive `a`.
C26_Witness ==
    /\ text = <<"a", "[", "a", "[", "a", "]", ",", "a">>
    /\ firstErr = "BadSyntax"
    /\ Len(tree) = 2 /\ tree[1].span = Some(<< >>)
    /\ Bytes(tree[2].target) = <<"a">>
    /\ last.f = "Ok"

(* The items of a comma-separated section, read off the text.              *)

(* Place k lies inside a section opened by the byte open at or after place *)
(* from and not yet closed by the byte close.                              *)
InsideOf(open, close, from, k) ==
    \E i \in from .. k - 1 :
        text[i] = open /\ \A j \in i + 1 .. k - 1 : text[j] # close

(* The separating commas of the slice d: those outside the sections opened *)
(* by open inside d.                                                       *)
Separators(d, open, close) ==
    {k \in d.lo + 1 .. d.hi : text[k] = "," /\ ~InsideOf(open, close, d.lo + 1, k)}

(* One item per separating comma and one for what follows the last one,    *)
(* as the grammar  x ("," x)*  reads the slice.                            *)
ItemsStated(d, open, close) == 1 + Cardinality(Separators(d, open, close))

(* The same, with nothing for an empty text after the last separator.      *)
Items(d, open, close) ==
    Cardinality(Separators(d, open, close))
      + (IF IsEmpty(d) \/ d.hi \in Separators(d, open, close) THEN 0 ELSE 1)

(* The text between the braces that follow the span name.                  *)
FieldSection(name) == Slice(name.hi + 1, FirstOf({"}"}, name.hi + 2) - 1)

(* The lazy parser was pulled to its end, every nested iterator to its end *)
(* before its parent was pulled again, and no pull yielded an Err.         *)
FullyPulled == last.f = "None" /\ inOrder /\ firstErr = "none"

\* C27 as stated: every filter with a [...] section holds at least one span
\* filter, every span with a {...} section at least one field filter, and the
\* number of filters is one plus the number of separating top-level commas.
C27_AsStated ==
    FullyPulled =>
        /\ Len(tree) = ItemsStated(Slice(0, Len(text)), "[", "]")
        /\ \A i \in DOMAIN tree :
              tree[i].span.some =>
                  /\ Len(tree[i].span.val) >= 1
                  /\ \A j \in DOMAIN tree[i].span.val :
                        tree[i].span.val[j].fields.some =>
                            Len(tree[i].span.val[j].fields.val) >= 1

\* C27: a parsed text yields one filter per separating top-level comma and one
\* for the text after the last of them unless that text is empty; the same
\* count holds for the span filters of a [...] section and the field filters
\* of a {...} section, so an empty section (`[]`, `{}`) yields no item, while
\* an empty name in front of `,`, `{` or `=` is yielded as an item with an
\* empty slice.
C27_ItemsPerSection ==
    FullyPulled =>
        /\ Len(tree) = Items(Slice(0, Len(text)), "[", "]")
        /\ \A i \in DOMAIN tree :
              tree[i].span.some =>
                  /\ Len(tree[i].span.val) = Items(tree[i].section.val, "{", "}")
                  /\ \A j \in DOMAIN tree[i].span.val :
                        tree[i].span.val[j].fields.some =>
                            Len(tree[i].span.val[j].fields.val) =
                                Items(FieldSection(tree[i].span.val[j].name), "{", "}")

\* C27 witness: `a[a{}]` was pulled to its end: one filter, one span filter
\* `a`, and no field filter from the empty braces.
C27_Witness ==
    /\ text = <<"a", "[", "a", "{", "}", "]">>
    /\ FullyPulled
    /\ Len(tree) = 1 /\ Len(tree[1].span.val) = 1
    /\ tree[1].span.val[1].fields = Some(<< >>)

(* The fields held at place h of the event's scope: 0 the event itself,    *)
(* i >= 1 the i-th span of its chain, innermost first.                     *)
HeldAt(e, h) == IF h = 0 THEN Range(e.fields) ELSE Range(e.span[h].fields)

(* The field f satisfies the field clause fd: its name contains the name   *)
(* text and, if a value text is given, the debug rendering of one of its   *)
(* leaves contains it.                                                     *)
Satisfies(f, fd) ==
    /\ Matches(f.name, fd.name)
    /\ fd.value.some => \E txt \in DebugTexts(f.value) : Matches(txt, fd.value.val)

(* The span clause is met at place i of the chain, the field clause at     *)
(* place h of the scope; the two places are chosen independently.          *)
MetAt(d, e, i, h) ==
    /\ Matches(e.span[i].name, d.span.val)
    /\ \E f \in HeldAt(e, h) : Satisfies(f, d.field.val)

(* The one directive of the filter, when it has a span and a field clause. *)
SpanFieldDirective ==
    /\ Parsed /\ Len(directives.val) = 1
    /\ directives.val[1].span.some /\ directives.val[1].field.some

\* C28: a directive with a span clause S and a field clause F admits an event
\* of a level it enables exactly when (its target clause, if any, applies and)
\* the name of some span of the event's ancestor chain contains S and some
\* field on the event itself or on any span of the chain, the span matching S
\* or another one, satisfies F.
C28_FieldAnyAncestor ==
    (SpanFieldDirective /\ result.some) =>
        result.val =
            /\ TargetApplies(directives.val[1], event.val)
            /\ \E i \in DOMAIN event.val.span, h \in 0 .. Len(event.val.span) :
                  MetAt(directives.val[1], event.val, i, h)
            /\ event.val.level <= directives.val[1].level

\* C28 witness: `[s{k}]` admitted an event with no field of its own in span
\* `t` inside span `s`: the only field named k is on `t`, not on `s`.
C28_Witness ==
    /\ filterText = <<"[", "s", "{", "k", "}", "]">>
    /\ SpanFieldDirective
    /\ event.val.fields = << >> /\ Len(event.val.span) = 2
    /\ event.val.span[1].name = <<"t">> /\ event.val.span[2].name = <<"s">>
    /\ event.val.span[2].fields = << >>
    /\ MetAt(directives.val[1], event.val, 2, 1)
    /\ result = Some(TRUE)

---------------------------------------------------------------------------
(* SpecAgree: the same text is given to the directive parser               *)
(* (eager::filters) and to the evaluator's front-end                       *)
(* (EventFilter::from_str).                                                *)

MaxAgree == 4      \* longest text given to both parsers over AgreeAlphabet

AgreeAlphabet == {"a", "1", "[", "]", "{", "}", "=", ","}

(* Directives of the grammar with two spans, two fields, and a second      *)
(* directive after a bracket section.                                      *)
GrammarTexts ==
    { <<"[", "a", ",", "a", "]">>,
      <<"[", "a", "{", "a", "=", "1", ",", "a", "=", "1", "}", "]">>,
      <<"a", "[", "a", "]", "=", "1", ",", "a", "=", "1">> }

AgreeTexts == SeqsUpTo(AgreeAlphabet, MaxAgree) \cup GrammarTexts

InitAgree ==
    /\ IdleArchive /\ IdleFields /\ IdleDebug
    /\ text \in AgreeTexts
    /\ written = None /\ filtersDirectives = Slice(0, 0)
    /\ spanDirectives = None /\ fieldDirectives = None
    /\ tree = << >> /\ last = [f |-> "None", s |-> "absent", d |-> "absent"]
    /\ firstErr = "none" /\ inOrder = TRUE /\ eager = None
    /\ filterText = text /\ directives = None /\ event = None
    /\ cursor = 0 /\ included = FALSE /\ result = None

NextAgree ==
    \/ EagerCall
    \/ FromStr

SpecAgree == InitAgree /\ [][NextAgree]_vars

(* Both calls have returned.                                               *)
BothParsed == eager.some /\ directives # None

(* eager::filters accepted the text and every level text it cut out is a   *)
(* level token.                                                            *)
GrammarAccepts ==
    /\ eager.val.ok
    /\ \A i \in DOMAIN eager.val.val :
          eager.val.val[i].level.some =>
              IsLevelToken(Bytes(eager.val.val[i].level.val))

\* C29 as stated: every text accepted by eager::filters whose level texts are
\* level tokens is accepted by EventFilter::from_str, with one evaluator
\* directive per top-level directive of the parser; a comma inside [...] or
\* {...} does not split the text into directives.
C29_AsStated ==
    (BothParsed /\ GrammarAccepts) =>
        /\ directives.ok
        /\ Len(directives.val) = Len(eager.val.val)

\* C29 witness: `[a,a]` is one directive with two spans for eager::filters and
\* an error for from_str, which split it at the comma into `[a` and `a]`.
C29_Witness ==
    /\ text = <<"[", "a", ",", "a", "]">>
    /\ BothParsed /\ GrammarAccepts
    /\ Len(eager.val.val) = 1 /\ Len(eager.val.val[1].span.val) = 2
    /\ Split(filterText) = << <<"[", "a">>, <<"a", "]">> >>
    /\ directives = Err("()")

(* Every parent link leads to a record allocated before the one that holds *)
(* it, and every handle of an event to an allocated record.                *)
ParentsOlder ==
    /\ \A r \in DOMAIN recs : recs[r].parent \in 0 .. r - 1
    /\ \A i \in DOMAIN events : events[i].span \in 0 .. Len(recs)

(* A record keeps the parent link it was built with; a record built by a   *)
(* step is a new root, a child of a record that existed, or a clone with   *)
(* the parent link of the record it was cloned from.                       *)
ParentsFixed ==
    /\ \A q \in DOMAIN recs : q \in DOMAIN recs' /\ recs'[q].parent = recs[q].parent
    /\ \A q \in DOMAIN recs' \ DOMAIN recs : recs'[q].parent \in {0} \cup DOMAIN recs
    /\ \A h \in DOMAIN host :
          (host[h].ext # 0 /\ host'[h].ext \notin {0, host[h].ext}) =>
              recs'[host'[h].ext].parent = recs[host[h].ext].parent

\* C30: in every reachable state the parent link of a span record refers to a
\* record that existed before it (or to none), so the chain walked by span()
\* and parent() from any event is finite and without cycle; the link is set
\* when the record is built, a copy-on-write clone carrying the link of the
\* record it is cloned from, and no step changes it afterwards.
C30_ParentChainAcyclic == [][ParentsOlder' /\ ParentsFixed]_vars

\* C30 witness: an archived event holds the copy-on-write clone (record 3) of
\* its span's record (record 2); both have the parent link to record 1, a
\* root, so the walk from the event ends after two steps.
C30_Witness ==
    /\ Len(recs) = 3
    /\ recs[1].parent = 0 /\ recs[2].parent = 1 /\ recs[3].parent = 1
    /\ recs[3].meta = recs[2].meta
    /\ \E i \in DOMAIN events :
          /\ events[i].span = 3
          /\ Len(ChainRecords(recs, events[i].span)) = 2

---------------------------------------------------------------------------
(* Claims about emitting from inside a with_events callback (Spec).        *)

(* The call whose callback the consumer t is emitting from: the frame      *)
(* under its push frame.                                                   *)
EmittingIn(t) == frames[t][Len(frames[t]) - 1].call

(* The push of a consumer inside its callback: the mutex it holds, the     *)
(* vector and what the callback was handed stay as they are, and the event *)
(* goes to the tail of the queue.                                          *)
PushInsideCallback ==
    \A t \in Consumers :
        Push(t) =>
            /\ mutex = t /\ mutex' = t
            /\ log' = log /\ calls' = calls
            /\ queue' = Append(queue, Len(events) + 1)
            /\ Len(events) + 1 \notin Range(calls[EmittingIn(t)].handed)

(* The vector a callback is entered with holds every event published       *)
(* before, in publication order.                                           *)
HandedAllPublished ==
    \A t \in Consumers :
        DrainEnd(t) =>
            calls'[Top(t).call].handed = [j \in 1 .. Len(events) |-> j]

\* C31: an event emitted by the consumer thread from inside a with_events
\* callback is published without the archive mutex being touched: the push is
\* never blocked (the thread holds the mutex and still pushes), it changes
\* neither the mutex nor the vector handed to the running callback, the event
\* goes to the queue, and the vector of every call whose draining ends later,
\* the next call first, holds it.
C31_EmitInsideCallback ==
    /\ [](\A t \in Consumers : At(t, "push") => ENABLED Push(t))
    /\ [][PushInsideCallback /\ HandedAllPublished]_vars

\* C31 witness: the first consumer emitted from inside the callback of the
\* first call, which had been handed an empty vector; the call returned, and
\* the second call was handed the event.
C31_Witness ==
    /\ Len(calls) = 2 /\ Len(events) = 1 /\ origin[1][1] = "c1"
    /\ calls[1].thread = "c1" /\ calls[1].handed = << >>
    /\ calls[1].state = "returned"
    /\ calls[2].state = "cb" /\ calls[2].handed = <<1>>

---------------------------------------------------------------------------
(* Claims about the end of the draining loop (SpecLive).                   *)

(* The call k holds the mutex and is inside events.extend(..).             *)
Draining(k) == k \in DOMAIN calls /\ calls[k].state = "drain"

(* The callback of the call k has been invoked.                            *)
Invoked(k) == k \in DOMAIN calls /\ calls[k].state \in {"cb", "returned", "panicked"}

(* A pop that finds an event takes exactly that one off the queue and      *)
(* stays in the loop; the callback is entered only by a pop that finds the *)
(* queue empty.                                                            *)
LoopRule ==
    \A t \in Consumers :
        /\ DrainPop(t) => Len(queue') = Len(queue) - 1 /\ At(t, "drain")'
        /\ (At(t, "drain") /\ At(t, "cb")') => queue = << >>

\* C32: with finitely many publishes, every with_events call that has got the
\* archive mutex eventually invokes its callback; the draining loop goes on
\* while its pops find events, each pop taking one event off the queue, and
\* ends with the first pop that finds the queue empty, not before.
C32_DrainEnds ==
    /\ \A k \in 1 .. MaxCalls : Draining(k) ~> Invoked(k)
    /\ [][LoopRule]_vars

\* C32 witness: the callback of the first call was invoked with all of the
\* MaxPub + 1 events the producers published, some of them while the call was
\* waiting for or holding the mutex.
C32_Witness ==
    /\ Invoked(1) /\ Len(calls[1].handed) = MaxPub + 1
    /\ calls[1].published < MaxPub + 1

---------------------------------------------------------------------------
(* Claims about a parent recorded on after a child was created             *)
(* (SpecCapture).                                                          *)

(* The open spans created under the span p that hold a record.             *)
ChildrenOf(p) == {c \in DOMAIN host : host[c].parent = p /\ host[c].ext # 0}

(* on_record on a span with children: each child keeps its handle, the     *)
(* chain walked from it is what it was, and the record now in the parent's *)
(* slot, which holds the new values, is not on that chain.                 *)
ChildKeepsCapturedParent ==
    \A p \in DOMAIN host, nvs \in RecordValues :
        OnRecord(p, nvs) =>
            /\ recs'[host'[p].ext].fields = RecordSpan(recs[host[p].ext].fields, nvs)
            /\ recs'[host'[p].ext].fields # recs[host[p].ext].fields
            /\ \A c \in ChildrenOf(p) :
                  /\ host'[c].ext = host[c].ext
                  /\ recs[host[c].ext].parent = host[p].ext =>
                         host'[p].ext # host[p].ext
                  /\ ChainRecords(recs', host[c].ext) = ChainRecords(recs, host[c].ext)
                  /\ host'[p].ext \notin ChainSet(recs', host[c].ext)

(* An event takes the record installed in the slot of the span it is       *)
(* emitted in: the child's, with the parent captured at the child's        *)
(* creation, or the parent's own, with the values recorded since.          *)
EventTakesInstalled ==
    \A h \in DOMAIN host, now \in Times, nvs \in EventValues :
        OnEventBuild("p1", EventMeta, now, nvs, h) =>
            Top("p1")'.archived.span = host[h].ext

\* C33: a child span holds the parent record that was installed when the
\* child was created: an on_record on the parent afterwards installs a clone
\* in the parent's slot and leaves the record the child points at unchanged,
\* so the chain walked from an event emitted in the child does not show the
\* new values, while an event emitted in the parent takes the record in the
\* parent's slot, which holds them.
C33_ChildCapturesParentOnce ==
    [][ChildKeepsCapturedParent /\ EventTakesInstalled]_vars

\* C33 witness: after an on_record on the parent of an open child, two events
\* are archived: one emitted in the child, whose chain reaches the parent
\* record without the new value, and one emitted in the parent, whose record
\* holds it.
C33_Witness ==
    \E c \in OpenSpans, i, j \in DOMAIN events :
        /\ host[c].parent \in OpenSpans
        /\ events[i].span = host[c].ext
        /\ events[j].span = host[host[c].parent].ext
        /\ recs[events[i].span].parent # events[j].span
        /\ NumValues(recs[events[j].span].fields, "a")
               > NumValues(recs[recs[events[i].span].parent].fields, "a")

---------------------------------------------------------------------------
(* Claims about the termination of the three lazy iterators (SpecParse).   *)

(* One pull that found d, left d2 and yielded an item of the given kind:   *)
(* nothing from an empty input, which stays as it is; otherwise an item    *)
(* and a strictly shorter input, the empty one after an error.             *)
Shortens(d, d2, kind) ==
    IF IsEmpty(d) THEN kind = "None" /\ d2 = d
    ELSE /\ kind # "None"
         /\ Size(d2) < Size(d)
         /\ IsErr(kind) => d2 = Cleared

PullShortens ==
    /\ FiltersPull => Shortens(filtersDirectives, filtersDirectives', last'.f)
    /\ SpanFiltersPull => Shortens(spanDirectives.val, spanDirectives'.val, last'.s)
    /\ FieldFiltersPull => Shortens(fieldDirectives.val, fieldDirectives'.val, last'.d)

(* A pull that yields an Err has yielded fewer Ok items than the bytes of   *)
(* the input it was made from, the Err itself being one more item.         *)
ErrWithinBytes ==
    /\ (FiltersPull /\ IsErr(last'.f)) => Len(tree) + 1 <= Len(text)
    /\ (SpanFiltersPull /\ IsErr(last'.s)) =>
           Len(tree[Len(tree)].span.val) + 1 <= Size(tree[Len(tree)].section.val)
    /\ (FieldFiltersPull /\ IsErr(last'.d)) =>
           LET spans == tree[Len(tree)].span.val
           IN  Len(spans[Len(spans)].fields.val) + 1
                   <= Size(FieldSection(spans[Len(spans)].name))

(* Once an iterator yielded None its input is empty, and next() on it      *)
(* yields None and leaves it as it is, however often it is called.         *)
NoneStays ==
    /\ last.f = "None" =>
           /\ IsEmpty(filtersDirectives)
           /\ FiltersNext(filtersDirectives) = Left(None, filtersDirectives)
    /\ last.s = "None" =>
           /\ IsEmpty(spanDirectives.val)
           /\ SpanFiltersNext(spanDirectives.val) = Left(None, spanDirectives.val)
    /\ last.d = "None" =>
           /\ IsEmpty(fieldDirectives.val)
           /\ FieldFiltersNext(fieldDirectives.val) = Left(None, fieldDirectives.val)

(* The items yielded so far and the bytes still to parse are together no   *)
(* more than the bytes of the input, at each of the three levels.          *)
ItemsWithinBytes ==
    /\ Len(tree) + Size(filtersDirectives) <= Len(text)
    /\ \A i \in DOMAIN tree :
          tree[i].span.some =>
              /\ Len(tree[i].span.val)
                   + (IF i = Len(tree) /\ spanDirectives.some
                      THEN Size(spanDirectives.val) ELSE 0)
                   <= Size(tree[i].section.val)
              /\ \A j \in DOMAIN tree[i].span.val :
                    tree[i].span.val[j].fields.some =>
                        Len(tree[i].span.val[j].fields.val)
                          + (IF i = Len(tree) /\ j = Len(tree[i].span.val)
                                /\ fieldDirectives.some
                             THEN Size(fieldDirectives.val) ELSE 0)
                          <= Size(FieldSection(tree[i].span.val[j].name))

\* C34: a pull of Filters, SpanFilters or FieldFilters on a non-empty
\* remaining input yields an item and leaves a strictly shorter input, the
\* empty one when the item is an Err; a pull on an empty input yields None and
\* leaves it unchanged, so that None is yielded by every pull after the first
\* None; the items yielded from an input of n bytes are at most n, and none
\* from an empty input.
C34_PullsTerminate ==
    /\ [](NoneStays /\ ItemsWithinBytes)
    /\ [][PullShortens /\ ErrWithinBytes]_vars

\* C34 witness: the two bytes `,,` yielded two filters, one per byte, and then
\* None with nothing left.
C34_Witness ==
    /\ text = <<",", ",">>
    /\ Len(tree) = 2
    /\ last.f = "None"
    /\ IsEmpty(filtersDirectives)
====
